---------------------------- MODULE Spec2Model ----------------------------
(***************************************************************************)
(* A model of the gatekeeping logic of the metadata extraction service:    *)
(*   - the address classifier  (src/src/security/ssrf.ts, isAddressForbidden)*)
(*   - the DNS cache and validateUrl (src/src/security/ssrf.ts)            *)
(*   - the sliding-window rate limiter (src/unnamed/part_003, rateLimiter) *)
(*                                                                         *)
(* Texts (IP literals, hostnames) are modelled as tokens                   *)
(*   [k |-> kind, parts |-> numbers, name |-> text]                        *)
(* where kind says how the text is written:                                *)
(*   "v4"   dotted quad a.b.c.d              parts = 4 decimal numbers     *)
(*   "v6"   eight hextets x:x:x:x:x:x:x:x    parts = 8 numbers             *)
(*   "v6t"  transitional x:..:x:a.b.c.d      parts = 6 hextets, 4 decimals *)
(*   "br"   a bracketed IPv6 host [x:..:x]   parts = 8 numbers             *)
(*   "name" anything else (a DNS name)       name  = the text              *)
(* Parsing turns a token into an address [kind, parts] by arithmetic, as   *)
(* ipaddr.js does; nothing is the identity.                                *)
(***************************************************************************)
EXTENDS Integers, Sequences, FiniteSets, TLC

Tok(k, parts, name) == [k |-> k, parts |-> parts, name |-> name]
V4(a, b, c, d) == Tok("v4", <<a, b, c, d>>, "")
V6(parts) == Tok("v6", parts, "")
V6T(prefix, a, b, c, d) == Tok("v6t", prefix \o <<a, b, c, d>>, "")
Name(s) == Tok("name", <<>>, s)

(***************************************************************************)
(* ipaddr.js, as used by ssrf.ts                                           *)
(***************************************************************************)
Pow2(n) == 2 ^ n

\* ipaddr.IPv4.isValid: four parts, each fitting in 8 bits.
IPv4IsValid(t) ==
  /\ t.k = "v4"
  /\ Len(t.parts) = 4
  /\ \A i \in 1..4 : t.parts[i] \in 0..255

\* ipaddr.IPv6.isValid: the native form (8 parts fitting in 16 bits) or the
\* transitional form (6 such parts and an IPv4 tail of 4 octets).  The
\* parser's regular expressions are anchored and know no brackets, so a
\* bracketed host is not valid.
IPv6IsValid(t) ==
  \/ /\ t.k = "v6"
     /\ Len(t.parts) = 8
     /\ \A i \in 1..8 : t.parts[i] \in 0..65535
  \/ /\ t.k = "v6t"
     /\ Len(t.parts) = 10
     /\ \A i \in 1..6 : t.parts[i] \in 0..65535
     /\ \A i \in 7..10 : t.parts[i] \in 0..255

\* ipaddr.isValid(string)
IpaddrIsValid(t) == IPv6IsValid(t) \/ IPv4IsValid(t)

\* ipaddr.parse(string) of a valid text: the address object.  The
\* transitional form packs its IPv4 tail into the last two 16-bit parts.
IpaddrParse(t) ==
  IF t.k = "v4" THEN [kind |-> "ipv4", parts |-> t.parts]
  ELSE IF t.k = "v6" THEN [kind |-> "ipv6", parts |-> t.parts]
  ELSE [kind |-> "ipv6",
        parts |-> SubSeq(t.parts, 1, 6)
                  \o << t.parts[7] * 256 + t.parts[8],
                        t.parts[9] * 256 + t.parts[10] >>]

\* matchCIDR(first, second, partSize, cidrBits) of ipaddr.js: compares part
\* by part, the last compared part shifted right.
RECURSIVE MatchCIDRFrom(_, _, _, _, _)
MatchCIDRFrom(first, second, partSize, cidrBits, part) ==
  IF cidrBits <= 0 THEN TRUE
  ELSE LET shift == IF partSize - cidrBits < 0 THEN 0 ELSE partSize - cidrBits
       IN  /\ first[part] \div Pow2(shift) = second[part] \div Pow2(shift)
           /\ MatchCIDRFrom(first, second, partSize, cidrBits - partSize, part + 1)

MatchCIDR(first, second, partSize, cidrBits) ==
  MatchCIDRFrom(first, second, partSize, cidrBits, 1)

Subnet(name, parts, bits) == [name |-> name, parts |-> parts, bits |-> bits]

\* IPv4.prototype.SpecialRanges, in the order subnetMatch walks them.
IPv4SpecialRanges ==
  << Subnet("unspecified", <<0, 0, 0, 0>>, 8),
     Subnet("broadcast", <<255, 255, 255, 255>>, 32),
     Subnet("multicast", <<224, 0, 0, 0>>, 4),
     Subnet("linkLocal", <<169, 254, 0, 0>>, 16),
     Subnet("loopback", <<127, 0, 0, 0>>, 8),
     Subnet("carrierGradeNat", <<100, 64, 0, 0>>, 10),
     Subnet("private", <<10, 0, 0, 0>>, 8),
     Subnet("private", <<172, 16, 0, 0>>, 12),
     Subnet("private", <<192, 168, 0, 0>>, 16),
     Subnet("reserved", <<192, 0, 0, 0>>, 24),
     Subnet("reserved", <<192, 0, 2, 0>>, 24),
     Subnet("reserved", <<192, 88, 99, 0>>, 24),
     Subnet("reserved", <<198, 18, 0, 0>>, 15),
     Subnet("reserved", <<198, 51, 100, 0>>, 24),
     Subnet("reserved", <<203, 0, 113, 0>>, 24),
     Subnet("reserved", <<240, 0, 0, 0>>, 4),
     Subnet("as112", <<192, 175, 48, 0>>, 24),
     Subnet("as112", <<192, 31, 196, 0>>, 24),
     Subnet("amt", <<192, 52, 193, 0>>, 24) >>

\* IPv6.prototype.SpecialRanges, in the order subnetMatch walks them.
IPv6SpecialRanges ==
  << Subnet("unspecified", <<0, 0, 0, 0, 0, 0, 0, 0>>, 128),
     Subnet("linkLocal", <<65152, 0, 0, 0, 0, 0, 0, 0>>, 10),
     Subnet("multicast", <<65280, 0, 0, 0, 0, 0, 0, 0>>, 8),
     Subnet("loopback", <<0, 0, 0, 0, 0, 0, 0, 1>>, 128),
     Subnet("uniqueLocal", <<64512, 0, 0, 0, 0, 0, 0, 0>>, 7),
     Subnet("ipv4Mapped", <<0, 0, 0, 0, 0, 65535, 0, 0>>, 96),
     Subnet("discard", <<256, 0, 0, 0, 0, 0, 0, 0>>, 64),
     Subnet("rfc6145", <<0, 0, 0, 0, 65535, 0, 0, 0>>, 96),
     Subnet("rfc6052", <<100, 65435, 0, 0, 0, 0, 0, 0>>, 96),
     Subnet("6to4", <<8194, 0, 0, 0, 0, 0, 0, 0>>, 16),
     Subnet("teredo", <<8193, 0, 0, 0, 0, 0, 0, 0>>, 32),
     Subnet("benchmarking", <<8193, 2, 0, 0, 0, 0, 0, 0>>, 48),
     Subnet("amt", <<8193, 3, 0, 0, 0, 0, 0, 0>>, 32),
     Subnet("as112v6", <<8193, 4, 274, 0, 0, 0, 0, 0>>, 48),
     Subnet("as112v6", <<9760, 79, 32768, 0, 0, 0, 0, 0>>, 48),
     Subnet("deprecated", <<8193, 16, 0, 0, 0, 0, 0, 0>>, 28),
     Subnet("orchid2", <<8193, 32, 0, 0, 0, 0, 0, 0>>, 28),
     Subnet("droneRemoteIdProtocolEntityTags", <<8193, 48, 0, 0, 0, 0, 0, 0>>, 28),
     Subnet("reserved", <<8193, 0, 0, 0, 0, 0, 0, 0>>, 23),
     Subnet("reserved", <<8193, 3512, 0, 0, 0, 0, 0, 0>>, 32) >>

\* ipaddr.subnetMatch(address, rangeList, "unicast"): the name of the first
\* range of the list that the address matches.
RECURSIVE SubnetMatchFrom(_, _, _, _)
SubnetMatchFrom(parts, rangeList, partSize, i) ==
  IF i > Len(rangeList) THEN "unicast"
  ELSE IF MatchCIDR(parts, rangeList[i].parts, partSize, rangeList[i].bits)
       THEN rangeList[i].name
       ELSE SubnetMatchFrom(parts, rangeList, partSize, i + 1)

\* address.range()
Range(addr) ==
  IF addr.kind = "ipv4"
  THEN SubnetMatchFrom(addr.parts, IPv4SpecialRanges, 8, 1)
  ELSE SubnetMatchFrom(addr.parts, IPv6SpecialRanges, 16, 1)

\* IPv6.prototype.isIPv4MappedAddress()
IsIPv4MappedAddress(addr) == Range(addr) = "ipv4Mapped"

\* IPv6.prototype.toIPv4Address(): the last two parts, split into octets.
ToIPv4Address(addr) ==
  LET high == addr.parts[7]
      low  == addr.parts[8]
  IN  [kind |-> "ipv4",
       parts |-> << high \div 256, high % 256, low \div 256, low % 256 >>]

(***************************************************************************)
(* ssrf.ts: the classifier                                                 *)
(***************************************************************************)
DISALLOWED_IP_RANGES ==
  { "unspecified", "broadcast", "multicast", "linkLocal", "loopback",
    "private", "reserved", "carrierGradeNat",
    "uniqueLocal", "6to4", "teredo", "benchmarking", "deprecated", "discard" }

\* The range name that isAddressForbidden looks up in the disallowed set.
ClassifiedRange(t) ==
  LET parsed == IpaddrParse(t)
  IN  IF parsed.kind = "ipv6" /\ IsIPv4MappedAddress(parsed)
      THEN Range(ToIPv4Address(parsed))
      ELSE Range(parsed)

\* The Set object that the constant DISALLOWED_IP_RANGES of ssrf.ts is bound to.
VARIABLE disallowedRanges

\* A classifier that looks up the range of the literal as written.
isAddressForbiddenNoUnwrap(t) ==
  IF ~IpaddrIsValid(t) THEN TRUE
  ELSE Range(IpaddrParse(t)) \in disallowedRanges

\* A classifier that lets through what it cannot parse.
isAddressForbiddenFailOpen(t) ==
  IF ~IpaddrIsValid(t) THEN FALSE
  ELSE ClassifiedRange(t) \in disallowedRanges

isAddressForbidden(t) ==
  IF ~IpaddrIsValid(t) THEN TRUE
  ELSE ClassifiedRange(t) \in disallowedRanges


(***************************************************************************)
(* lru-cache, as configured by ssrf.ts and the rate limiter: options max   *)
(* and ttl only (no updateAgeOnGet, no allowStale, no ttlAutopurge).  A    *)
(* cache is the sequence of its entries [key, value, start] from the least *)
(* recently used (head) to the most recently used (tail).                  *)
(***************************************************************************)
CacheKeys(cache) == { cache[i].key : i \in 1..Len(cache) }

CacheIndex(cache, key) ==
  IF key \in CacheKeys(cache)
  THEN CHOOSE i \in 1..Len(cache) : cache[i].key = key
  ELSE 0

CacheWithout(cache, i) == SubSeq(cache, 1, i - 1) \o SubSeq(cache, i + 1, Len(cache))

\* An entry that is stale already when its age reaches the ttl.
IsStaleAtTtl(entry, ttl, t) == t - entry.start >= ttl

\* #isStale: an entry is stale once its age exceeds the ttl.
IsStale(entry, ttl, t) == t - entry.start > ttl

\* A get that leaves the entry it returns where it is in the order of use.
CacheGetNoTouch(cache, key, ttl, t) ==
  LET i == CacheIndex(cache, key)
  IN  IF i = 0 THEN [cache |-> cache, hit |-> FALSE, value |-> <<>>]
      ELSE IF IsStale(cache[i], ttl, t)
           THEN [cache |-> CacheWithout(cache, i), hit |-> FALSE, value |-> <<>>]
           ELSE [cache |-> cache, hit |-> TRUE, value |-> cache[i].value]

\* A get that restarts the age of the entry it returns (updateAgeOnGet).
CacheGetRefreshing(cache, key, ttl, t) ==
  LET i == CacheIndex(cache, key)
  IN  IF i = 0 THEN [cache |-> cache, hit |-> FALSE, value |-> <<>>]
      ELSE IF IsStale(cache[i], ttl, t)
           THEN [cache |-> CacheWithout(cache, i), hit |-> FALSE, value |-> <<>>]
           ELSE [cache |-> Append(CacheWithout(cache, i), [cache[i] EXCEPT !.start = t]),
                 hit |-> TRUE, value |-> cache[i].value]

\* LRUCache.get(key): [cache |-> the cache afterwards, hit |-> whether a
\* value is returned (not undefined), value |-> that value].  A stale entry
\* is deleted and reported as a miss; a hit moves the entry to the tail and
\* leaves its start alone.
CacheGet(cache, key, ttl, t) ==
  LET i == CacheIndex(cache, key)
  IN  IF i = 0 THEN [cache |-> cache, hit |-> FALSE, value |-> <<>>]
      ELSE IF IsStale(cache[i], ttl, t)
           THEN [cache |-> CacheWithout(cache, i), hit |-> FALSE, value |-> <<>>]
           ELSE [cache |-> Append(CacheWithout(cache, i), cache[i]),
                 hit |-> TRUE, value |-> cache[i].value]

\* A set that makes room in a full cache before it looks for the key.
CacheSetEvictFirst(cache, key, value, max, t) ==
  LET room == IF Len(cache) >= max THEN Tail(cache) ELSE cache
      i == CacheIndex(room, key)
      entry == [key |-> key, value |-> value, start |-> t]
  IN  IF i # 0 THEN Append(CacheWithout(room, i), entry)
      ELSE Append(room, entry)

\* A set that keeps the value and the start of a key it already holds.
CacheSetKeepFirst(cache, key, value, max, t) ==
  LET i == CacheIndex(cache, key)
      entry == [key |-> key, value |-> value, start |-> t]
  IN  IF i # 0 THEN Append(CacheWithout(cache, i), cache[i])
      ELSE IF Len(cache) >= max THEN Append(Tail(cache), entry)
      ELSE Append(cache, entry)

\* A set that never evicts.
CacheSetUnbounded(cache, key, value, max, t) ==
  LET i == CacheIndex(cache, key)
      entry == [key |-> key, value |-> value, start |-> t]
  IN  IF i # 0 THEN Append(CacheWithout(cache, i), entry)
      ELSE Append(cache, entry)

\* LRUCache.set(key, value): an existing key gets the new value and a new
\* start and moves to the tail; a new key is appended, after the head was
\* evicted when the cache already holds max entries.
CacheSet(cache, key, value, max, t) ==
  LET i == CacheIndex(cache, key)
      entry == [key |-> key, value |-> value, start |-> t]
  IN  IF i # 0 THEN Append(CacheWithout(cache, i), entry)
      ELSE IF Len(cache) >= max THEN Append(Tail(cache), entry)
      ELSE Append(cache, entry)

(***************************************************************************)
(* new URL(urlCandidate), as far as validateUrl reads it.  A candidate is  *)
(* [scheme, host, path] where host is the token written in the authority,  *)
(* path the first segment written after it, and scheme "" stands for a     *)
(* text without a scheme.                                                  *)
(***************************************************************************)
CandidateAt(scheme, host, path) == [scheme |-> scheme, host |-> host, path |-> path]

Candidate(scheme, host) == CandidateAt(scheme, host, "")

\* The schemes the URL parser treats as special (file apart): their host may
\* not be empty, and the parser skips every slash written before it.
SpecialSchemes == { "http", "https", "ftp", "ws", "wss" }

\* ASCII lowercasing of a host name, over the names the model uses.
ToLowerCase(s) == IF s = "EXAMPLE.com" THEN "example.com" ELSE s

Bracketed(t) == Tok("br", t.parts, t.k)

\* The host parser for a special scheme: an IPv4 literal stays a dotted
\* quad, a bracketed IPv6 literal is serialised as "[" hextets "]" (a
\* transitional tail packed into hextets), a domain is lowercased; an
\* empty host, an IPv4 number out of range and an unbracketed or invalid
\* IPv6 literal are failures.
ParseHost(h) ==
  IF h.k = "name" THEN
       IF h.name = "" THEN [ok |-> FALSE, hostname |-> h]
       ELSE [ok |-> TRUE, hostname |-> Name(ToLowerCase(h.name))]
  ELSE IF h.k = "v4" THEN [ok |-> IPv4IsValid(h), hostname |-> h]
  ELSE IF h.k = "br" THEN
       LET inner == Tok(h.name, h.parts, "")
       IN  IF IPv6IsValid(inner)
           THEN [ok |-> TRUE,
                 hostname |-> Bracketed(V6(IpaddrParse(inner).parts))]
           ELSE [ok |-> FALSE, hostname |-> h]
  ELSE [ok |-> FALSE, hostname |-> h]

\* A parser that leaves the host of "http:///path" empty.
ParseUrlEmptyHost(c) ==
  IF c.scheme = "" THEN [ok |-> FALSE, protocol |-> "", hostname |-> c.host]
  ELSE IF c.scheme \in SpecialSchemes /\ c.host # Name("")
  THEN LET ph == ParseHost(c.host)
       IN  [ok |-> ph.ok, protocol |-> c.scheme \o ":", hostname |-> ph.hostname]
  ELSE [ok |-> c.host.k = "name" /\ (c.scheme \notin SpecialSchemes \/ c.path # ""),
        protocol |-> c.scheme \o ":", hostname |-> c.host]

\* Of a special scheme with nothing written in the authority ("http:///path")
\* the parser takes the first segment after the slashes as the host; a text
\* of another scheme ("mailto:user") parses with the host as written, which
\* may be empty.
ParseUrl(c) ==
  IF c.scheme = "" THEN [ok |-> FALSE, protocol |-> "", hostname |-> c.host]
  ELSE IF c.scheme \in SpecialSchemes
  THEN LET written == IF c.host = Name("") /\ c.path # "" THEN Name(c.path) ELSE c.host
           ph == ParseHost(written)
       IN  [ok |-> ph.ok, protocol |-> c.scheme \o ":", hostname |-> ph.hostname]
  ELSE [ok |-> c.host.k = "name", protocol |-> c.scheme \o ":", hostname |-> c.host]


(***************************************************************************)
(* The inputs of the model                                                 *)
(***************************************************************************)
\* Addresses a resolver may answer with.
PublicV4 == V4(93, 184, 216, 34)
PrivateV4 == V4(10, 0, 0, 1)
PublicV6 == V6(<<9734, 10240, 544, 1, 584, 6291, 9672, 6470>>)
MappedLoopbackV6 == V6T(<<0, 0, 0, 0, 0, 65535>>, 127, 0, 0, 1)

\* The URL texts handed to validateUrl.
UrlCandidates ==
  { Candidate("", Name("not a url")),
    Candidate("ftp", Name("example.com")),
    Candidate("http", Name("EXAMPLE.com")),
    Candidate("https", Name("empty.test")),
    Candidate("http", PublicV4),
    Candidate("http", V4(127, 0, 0, 1)),
    Candidate("http", Bracketed(PublicV6)),
    Candidate("http", Bracketed(MappedLoopbackV6)) }

\* The URL texts of a validation running beside another one: those whose
\* validation reads or writes the cache.
ConcurrentCandidates ==
  { Candidate("http", Name("EXAMPLE.com")) }

\* The URL texts of the cache scenarios: three names for a cache of two.
CacheCandidates ==
  { Candidate("http", Name("a.test")),
    Candidate("http", Name("b.test")),
    Candidate("https", Name("c.test")) }

\* Those of the validation running beside.
CacheConcurrentCandidates ==
  { Candidate("http", Name("a.test")) }

\* The URL texts of the scenarios on the order of the checks: a text that
\* does not parse ("not a url", "http://"), "http:///path", "mailto:user",
\* "ftp://127.0.0.1/", two IPv4 literals and a name.
OrderCandidates ==
  { Candidate("", Name("not a url")),
    Candidate("http", Name("")),
    CandidateAt("http", Name(""), "path"),
    CandidateAt("mailto", Name(""), "user"),
    Candidate("ftp", V4(127, 0, 0, 1)),
    Candidate("http", V4(127, 0, 0, 1)),
    Candidate("http", PublicV4),
    Candidate("https", Name("a.test")) }

\* Those of the validation running beside.
OrderConcurrentCandidates ==
  { CandidateAt("http", Name(""), "path") }

\* What one lookup (resolve4 or resolve6) can settle as.
Fulfilled(addrs) == [st |-> "fulfilled", value |-> addrs, err |-> ""]
Rejected(err) == [st |-> "rejected", value |-> <<>>, err |-> err]
NotStarted == [st |-> "none", value |-> <<>>, err |-> ""]
Pending == [st |-> "pending", value |-> <<>>, err |-> ""]

\* The answers the resolver can give for the A records of a host name.  A
\* bracketed literal is no name any zone holds: its lookups fail.
Resolve4Outcomes(hostname) ==
  IF hostname.k # "name" THEN { Rejected("queryA ENOTFOUND") }
  ELSE IF hostname.name = "example.com"
  THEN { Fulfilled(<<PublicV4>>), Fulfilled(<<PublicV4, PrivateV4>>),
         Rejected("queryA ETIMEOUT") }
  ELSE IF hostname.name = "empty.test"
  THEN { Fulfilled(<<>>) }
  ELSE IF hostname.name = "a.test"
  THEN { Fulfilled(<<PublicV4>>), Fulfilled(<<PrivateV4>>), Rejected("queryA ETIMEOUT") }
  ELSE IF hostname.name = "path"
  THEN { Fulfilled(<<PublicV4>>), Rejected("queryA ENOTFOUND") }
  ELSE { Fulfilled(<<PublicV4>>) }

\* The same for the AAAA records.
Resolve6Outcomes(hostname) ==
  IF hostname.k # "name" THEN { Rejected("queryAaaa ENOTFOUND") }
  ELSE IF hostname.name = "example.com"
  THEN { Fulfilled(<<PublicV6>>), Fulfilled(<<MappedLoopbackV6>>),
         Rejected("queryAaaa ETIMEOUT") }
  ELSE IF hostname.name = "empty.test"
  THEN { Fulfilled(<<>>), Rejected("queryAaaa ENODATA") }
  ELSE { Rejected("queryAaaa ENODATA") }

(***************************************************************************)
(* Constants of ssrf.ts and bounds of the model                            *)
(***************************************************************************)
\* ttl of dnsCache: 5 * 60 * 1000
DNS_CACHE_TTL_MS == 300000

\* max of dnsCache, scaled down from 1000
DnsCacheMax == 2

\* The clock advances in steps of one ttl, up to MaxTicks steps.
GuardTickMs == DNS_CACHE_TTL_MS
MaxTicks == 3

\* The validateUrl calls that can be in flight together.
Procs == { "v1", "v2" }


(***************************************************************************)
(* State                                                                   *)
(***************************************************************************)
VARIABLES
  now,        \* the clock the DNS cache reads, in ms
  dnsCache,   \* ssrf.ts dnsCache
  pc,         \* per validateUrl call: "idle", "resolving" (awaiting
              \* resolveHostAddresses) or "done" (returned, result not yet consumed)
  arg,        \* per call: its urlCandidate
  q4, q6,     \* per call: its resolve4 and resolve6 lookup (pending, or as it settled)
  result,     \* per call: the UrlValidationResult it returned
  used,       \* per call: the records it classified (none: the empty list)
  stats,      \* per call: how often it called resolveHostAddresses, dnsCache.get, dnsCache.set
  live,       \* history, per hostname: the successful resolutions stored within
              \* the last ttl and not evicted or cleared since, in store order
  expected,   \* per call: the part of live about its hostname when it was called
  sawStale    \* per call: its hostname had an entry older than the ttl when it was called

guardVars ==
  << now, dnsCache, pc, arg, q4, q6, result, used, stats, live, expected, sawStale >>

VARIABLES
  clock,          \* the clock the rate limiter reads (Date.now()), in ms
  rateLimitStore, \* part_003 rateLimitStore
  rpc,            \* per request in the middleware: "idle", "next" (admitted,
                  \* awaiting next()) or "denied" (the 429 response is made)
  rip,            \* per request: the identity getClientIp gave it
  response,       \* per request: the response the middleware made itself
  admissions,     \* history, per identity: the clock values of its admissions
                  \* of the last window and a half, since its entry was last dropped
                  \* by an eviction or a clear
  hinted          \* history, per identity, kept in the scenarios on re-admission:
                  \* the earliest time a retry hint of its denials since its
                  \* last admission points to, how many these denials are, and
                  \* whether the admission that followed them has been made

VARIABLES
  apiKey,         \* part_003 API_KEY (process.env.API_KEY), "" when not set
  apc,            \* per request in apiKeyAuth: "idle", "next" (passed, about
                  \* to call next()), "inner" (awaiting next()) or "rejected"
  authz           \* per request: its Authorization header

authVars == << apiKey, apc, authz >>

limiterVars ==
  << clock, rateLimitStore, rpc, rip, response, admissions, hinted, authVars >>

VARIABLES
  subject,        \* the text given to the classifier
  cpc,            \* classifier scenario: "off", "given", "classified", "mapped", "validated"
  verdict         \* what the classifier and validateUrl said about the subject
                  \* and about its IPv4-mapped forms

classifierVars == << subject, cpc, verdict, disallowedRanges >>

VARIABLES
  hpc,            \* per request: where its route handler is: "none", "validating"
                  \* (awaiting validateUrl), "newContext", "setup", "loading",
                  \* "closing", "failing" (inside fetchPage) or "answered"
  endpoint,       \* per request: "/process" or "/content"
  target,         \* per request: the url of its body
  hres,           \* per request: the response of the route handler
  caller,         \* per validateUrl call: the request it is made for, and whether by
                  \* the route handler or by the hook of page.route for a
                  \* navigation or a sub-resource request
  fctx,           \* per request: the browser context of its fetchPage call
  open,           \* the browser contexts that are open
  wire,           \* history: the page requests the hook has continued
  aborted,        \* history: the page requests the hook has aborted
  timeout,        \* per request: the timeout field of its body
  pageTimeout,    \* per request: pageTimeout of its fetchPage call, in ms
  cookies         \* per request: the cookies added to the context of its fetch

routeVars ==
  << hpc, endpoint, target, hres, caller, fctx, open, wire, aborted, timeout,
     pageTimeout, cookies >>

VARIABLES
  fetchTimeoutMs,     \* consent.ts FETCH_TIMEOUT_MS, as parsed from the environment
  configFile,         \* the file at CONSENT_COOKIES_PATH
  consentConfig,      \* consent.ts consentConfig
  phase,              \* index.ts: "main" (main() awaits loadConsentCookies),
                      \* "connecting" (it awaits connectBrowser), "listening"
                      \* (serve was called) or "exited" (process.exit(1))
  adBlocker,          \* consent.ts adBlocker: "none" (null) or "loaded"
  adBlockerLoading,   \* consent.ts adBlockerLoading
  browser,            \* index.ts browser: "none" (null) or "connected"
  browserConnecting,  \* index.ts browserConnecting
  link,               \* history of index.ts: the calls of ensureBrowser that
                      \* await connectBrowser, the browsers assigned to browser
                      \* so far, and the status of the last answer of /ready
  conn,               \* the call of connectBrowser that is followed attempt by
                      \* attempt: where it is, its loop variable, lastError, the
                      \* time it has spent in its delays, the outcomes of its
                      \* attempts so far and the cause in the error it threw
  reported            \* history: the last call of a clear or stats function
                      \* that was followed, what it returned, and a bit that
                      \* every such call flips

\* What is set before the server listens.
configVars == << fetchTimeoutMs, configFile, consentConfig, phase >>

processKept ==
  << configVars, adBlocker, adBlockerLoading, browser, browserConnecting, link,
     conn >>

processVars == << processKept, reported >>

NoReport == [op |-> "", size |-> 0, max |-> 0, n |-> 0]

\* What the steps of validateUrl and of the DNS cache leave alone.
GuardFrame == UNCHANGED << limiterVars, classifierVars, routeVars, processVars >>

(***************************************************************************)
(* ssrf.ts: validateUrl                                                    *)
(***************************************************************************)
NoTok == Tok("none", <<>>, "")
NoResult == [kind |-> "none", msg |-> "", host |-> NoTok, addr |-> NoTok, err |-> <<>>]
Allowed == [kind |-> "allowed", msg |-> "", host |-> NoTok, addr |-> NoTok, err |-> <<>>]
Denied(msg, host, addr, err) ==
  [kind |-> "denied", msg |-> msg, host |-> host, addr |-> addr, err |-> err]
\* A promise of validateUrl that rejects instead of returning a result.
Threw(err) == [kind |-> "rejected", msg |-> "", host |-> NoTok, addr |-> NoTok, err |-> err]

NoStats == [dns |-> 0, gets |-> 0, sets |-> 0]

\* A resolution that returns the empty list when no lookup erred.
resolveHostAddressesEmptyOk(r4, r6) ==
  LET addresses == (IF r4.st = "fulfilled" THEN r4.value ELSE <<>>)
                   \o (IF r6.st = "fulfilled" THEN r6.value ELSE <<>>)
      errors == (IF r4.st = "rejected" THEN << r4.err >> ELSE <<>>)
                \o (IF r6.st = "rejected" THEN << r6.err >> ELSE <<>>)
  IN  IF Len(addresses) > 0 \/ Len(errors) = 0
      THEN [ok |-> TRUE, addresses |-> addresses, message |-> <<>>]
      ELSE [ok |-> FALSE, addresses |-> <<>>, message |-> errors]

\* A resolution that needs both lookups to succeed (Promise.all).
resolveHostAddressesAll(r4, r6) ==
  LET addresses == (IF r4.st = "fulfilled" THEN r4.value ELSE <<>>)
                   \o (IF r6.st = "fulfilled" THEN r6.value ELSE <<>>)
      errors == (IF r4.st = "rejected" THEN << r4.err >> ELSE <<>>)
                \o (IF r6.st = "rejected" THEN << r6.err >> ELSE <<>>)
  IN  IF Len(addresses) > 0 /\ Len(errors) = 0
      THEN [ok |-> TRUE, addresses |-> addresses, message |-> <<>>]
      ELSE [ok |-> FALSE, addresses |-> <<>>,
            message |-> IF Len(errors) > 0 THEN errors
                        ELSE << "DNS lookup did not return any A or AAAA records" >>]

\* resolveHostAddresses, once both lookups have settled: the A addresses and
\* then the AAAA addresses, or the error it throws (errors.join("; ") is kept
\* as the list of the joined messages).
resolveHostAddresses(r4, r6) ==
  LET results == << r4, r6 >>
      addresses == (IF r4.st = "fulfilled" THEN r4.value ELSE <<>>)
                   \o (IF r6.st = "fulfilled" THEN r6.value ELSE <<>>)
      errors == (IF r4.st = "rejected" THEN << r4.err >> ELSE <<>>)
                \o (IF r6.st = "rejected" THEN << r6.err >> ELSE <<>>)
  IN  IF Len(addresses) > 0
      THEN [ok |-> TRUE, addresses |-> addresses, message |-> <<>>]
      ELSE [ok |-> FALSE, addresses |-> <<>>,
            message |-> IF Len(errors) > 0 THEN errors
                        ELSE << "DNS lookup did not return any A or AAAA records" >>]

\* A loop that stops after the first record.
FirstForbiddenHeadOnly(records) ==
  IF Len(records) > 0 /\ isAddressForbidden(records[1]) THEN 1 ELSE 0

\* The loop over the records: the index of the first forbidden one, or 0.
FirstForbidden(records) ==
  IF \E i \in 1..Len(records) : isAddressForbidden(records[i])
  THEN CHOOSE i \in 1..Len(records) :
         /\ isAddressForbidden(records[i])
         /\ \A j \in 1..(i - 1) : ~isAddressForbidden(records[j])
  ELSE 0

\* The end of validateUrl: the decision over the records it holds.
CheckRecords(hostname, records) ==
  IF Len(records) = 0
  THEN Denied("DNS lookup did not return any addresses", hostname, NoTok, <<>>)
  ELSE LET i == FirstForbidden(records)
       IN  IF i # 0
           THEN Denied("Refusing to access forbidden resolved address",
                       hostname, records[i], <<>>)
           ELSE Allowed

\* ipaddr.isValid(hostname) in validateUrl: the fast path for IP literals.
IsIpLiteral(hostname) == IpaddrIsValid(hostname)

\* A validateUrl that looks at the hostname before the protocol.
CheckUrlHostnameFirst(c) ==
  LET u == ParseUrl(c)
  IN  IF ~u.ok
      THEN Denied("Invalid URL", c.host, NoTok, << "Invalid URL" >>)
      ELSE IF u.hostname.k = "name" /\ u.hostname.name = ""
      THEN Denied("URL must include a hostname", u.hostname, NoTok, <<>>)
      ELSE IF IsIpLiteral(u.hostname)
      THEN IF isAddressForbidden(u.hostname)
           THEN Denied("Refusing to access forbidden IP address", u.hostname, NoTok, <<>>)
           ELSE Allowed
      ELSE IF u.protocol # "http:" /\ u.protocol # "https:"
      THEN Denied("Unsupported protocol for URL", u.hostname, NoTok, <<>>)
      ELSE NoResult

\* The checks of validateUrl that need neither the cache nor the resolver:
\* the result, or NoResult when the hostname has to be looked up.
CheckUrl(c) ==
  LET u == ParseUrl(c)
  IN  IF ~u.ok
      THEN Denied("Invalid URL", c.host, NoTok, << "Invalid URL" >>)
      ELSE IF u.protocol # "http:" /\ u.protocol # "https:"
      THEN Denied("Unsupported protocol for URL", u.hostname, NoTok, <<>>)
      ELSE IF u.hostname.k = "name" /\ u.hostname.name = ""
      THEN Denied("URL must include a hostname", u.hostname, NoTok, <<>>)
      ELSE IF IsIpLiteral(u.hostname)
      THEN IF isAddressForbidden(u.hostname)
           THEN Denied("Refusing to access forbidden IP address", u.hostname, NoTok, <<>>)
           ELSE Allowed
      ELSE NoResult

\* A validateUrl without the try/catch around the resolution.
AfterResolveUncaught(hostname, res) ==
  IF res.ok THEN CheckRecords(hostname, res.addresses)
  ELSE Threw(res.message)

\* What validateUrl returns when resolveHostAddresses has thrown or returned.
AfterResolve(hostname, res) ==
  IF res.ok THEN CheckRecords(hostname, res.addresses)
  ELSE Denied("Failed to resolve hostname", hostname, NoTok, res.message)

HostOf(c) == ParseUrl(c).hostname

LiveOf(hostname) == IF hostname \in DOMAIN live THEN live[hostname] ELSE <<>>

HasStaleEntry(hostname) ==
  \E i \in 1..Len(dnsCache) :
    /\ dnsCache[i].key = hostname
    /\ now - dnsCache[i].start > DNS_CACHE_TTL_MS

\* validateUrl(c) up to its first await, or to its return when it needs no
\* resolution: the checks, the cache lookup, and on a hit the decision.
ValidateUrlBegin(p, c) ==
  /\ pc[p] = "idle"
  /\ arg' = [arg EXCEPT ![p] = c]
  /\ LET early == CheckUrl(c)
         hostname == HostOf(c)
         got == CacheGet(dnsCache, hostname, DNS_CACHE_TTL_MS, now)
     IN  IF early # NoResult
         THEN /\ result' = [result EXCEPT ![p] = early]
              /\ pc' = [pc EXCEPT ![p] = "done"]
              /\ UNCHANGED << dnsCache, q4, q6, used, stats, expected, sawStale >>
         ELSE /\ dnsCache' = got.cache
              /\ expected' = [expected EXCEPT ![p] = LiveOf(hostname)]
              /\ sawStale' = [sawStale EXCEPT ![p] = HasStaleEntry(hostname)]
              /\ IF got.hit
                 THEN /\ used' = [used EXCEPT ![p] = got.value]
                      /\ result' = [result EXCEPT ![p] = CheckRecords(hostname, got.value)]
                      /\ stats' = [stats EXCEPT ![p].gets = 1]
                      /\ pc' = [pc EXCEPT ![p] = "done"]
                      /\ UNCHANGED << q4, q6 >>
                 ELSE /\ stats' = [stats EXCEPT ![p].gets = 1, ![p].dns = 1]
                      /\ q4' = [q4 EXCEPT ![p] = Pending]
                      /\ q6' = [q6 EXCEPT ![p] = Pending]
                      /\ pc' = [pc EXCEPT ![p] = "resolving"]
                      /\ UNCHANGED << result, used >>
  /\ UNCHANGED << now, live >>

\* A call of validateUrl on its own.
ValidateCall(p, c) == ValidateUrlBegin(p, c) /\ GuardFrame

\* The keys a set of this key evicts from the cache.
EvictedBySet(cache, key, max) ==
  IF key \notin CacheKeys(cache) /\ Len(cache) >= max THEN { Head(cache).key } ELSE {}

\* A validateUrl that classifies the addresses before it stores them, and
\* stores only a list it allows.
ResolveDoneClassifiesFirst(p, o4, o6) ==
  /\ pc[p] = "resolving"
  /\ o4 \in Resolve4Outcomes(HostOf(arg[p]))
  /\ o6 \in Resolve6Outcomes(HostOf(arg[p]))
  /\ q4' = [q4 EXCEPT ![p] = o4]
  /\ q6' = [q6 EXCEPT ![p] = o6]
  /\ LET hostname == HostOf(arg[p])
         res == resolveHostAddresses(o4, o6)
         out == AfterResolve(hostname, res)
         gone == EvictedBySet(dnsCache, hostname, DnsCacheMax)
     IN  /\ result' = [result EXCEPT ![p] = out]
         /\ used' = [used EXCEPT ![p] = IF res.ok THEN res.addresses ELSE used[p]]
         /\ IF res.ok /\ out.kind = "allowed"
            THEN /\ dnsCache' = CacheSet(dnsCache, hostname, res.addresses, DnsCacheMax, now)
                 /\ stats' = [stats EXCEPT ![p].sets = 1]
                 /\ live' = [h \in DOMAIN live |->
                               IF h = hostname
                               THEN Append(live[h], [at |-> now, result |-> out])
                               ELSE IF h \in gone THEN <<>> ELSE live[h]]
            ELSE UNCHANGED << dnsCache, stats, live >>
  /\ pc' = [pc EXCEPT ![p] = "done"]
  /\ UNCHANGED << now, arg, expected, sawStale >>
  /\ GuardFrame

\* Promise.allSettled has both results, o4 of resolve4 and o6 of resolve6:
\* resolveHostAddresses returns or throws and validateUrl runs to its
\* return: on success it stores the addresses and decides over them, on
\* failure it denies.  Nothing of this call reads or writes shared state
\* between the settling of the lookups and this continuation.
ResolveDone(p, o4, o6) ==
  /\ pc[p] = "resolving"
  /\ o4 \in Resolve4Outcomes(HostOf(arg[p]))
  /\ o6 \in Resolve6Outcomes(HostOf(arg[p]))
  /\ q4' = [q4 EXCEPT ![p] = o4]
  /\ q6' = [q6 EXCEPT ![p] = o6]
  /\ LET hostname == HostOf(arg[p])
         res == resolveHostAddresses(o4, o6)
         out == AfterResolve(hostname, res)
         gone == EvictedBySet(dnsCache, hostname, DnsCacheMax)
     IN  /\ result' = [result EXCEPT ![p] = out]
         /\ IF res.ok
            THEN /\ dnsCache' = CacheSet(dnsCache, hostname, res.addresses, DnsCacheMax, now)
                 /\ used' = [used EXCEPT ![p] = res.addresses]
                 /\ stats' = [stats EXCEPT ![p].sets = 1]
                 /\ live' = [h \in DOMAIN live |->
                               IF h = hostname
                               THEN Append(live[h], [at |-> now, result |-> out])
                               ELSE IF h \in gone THEN <<>> ELSE live[h]]
            ELSE UNCHANGED << dnsCache, used, stats, live >>
  /\ pc' = [pc EXCEPT ![p] = "done"]
  /\ UNCHANGED << now, arg, expected, sawStale >>
  /\ GuardFrame

\* The caller has consumed the result; the slot is free for the next call.
Release(p) ==
  /\ pc[p] = "done"
  /\ pc' = [pc EXCEPT ![p] = "idle"]
  /\ arg' = [arg EXCEPT ![p] = Candidate("", Name(""))]
  /\ q4' = [q4 EXCEPT ![p] = NotStarted]
  /\ q6' = [q6 EXCEPT ![p] = NotStarted]
  /\ result' = [result EXCEPT ![p] = NoResult]
  /\ used' = [used EXCEPT ![p] = <<>>]
  /\ stats' = [stats EXCEPT ![p] = NoStats]
  /\ expected' = [expected EXCEPT ![p] = <<>>]
  /\ sawStale' = [sawStale EXCEPT ![p] = FALSE]
  /\ UNCHANGED << now, dnsCache, live >>

Return(p) == Release(p) /\ GuardFrame

\* A clear that empties the store of the rate limiter as well.
ClearDnsCacheAlsoLimiter ==
  /\ dnsCache' = <<>>
  /\ live' = [h \in DOMAIN live |-> <<>>]
  /\ rateLimitStore' = <<>>
  /\ admissions' = [k \in DOMAIN admissions |-> <<>>]
  /\ UNCHANGED << now, pc, arg, q4, q6, result, used, stats, expected, sawStale >>
  /\ UNCHANGED << clock, rpc, rip, response, hinted, authVars >>
  /\ UNCHANGED << classifierVars, routeVars, processKept >>

\* clearDnsCache(): dnsCache.clear()
ClearDnsCacheBody ==
  /\ dnsCache' = <<>>
  /\ live' = [h \in DOMAIN live |-> <<>>]
  /\ UNCHANGED << now, pc, arg, q4, q6, result, used, stats, expected, sawStale >>
  /\ UNCHANGED << limiterVars, classifierVars, routeVars, processKept >>

\* clearDnsCache() of a cache that holds something
ClearDnsCache == dnsCache # <<>> /\ ClearDnsCacheBody /\ UNCHANGED reported

\* The history after a call of the function op that returned size and max.
Noted(op, size, max) == [op |-> op, size |-> size, max |-> max, n |-> 1 - reported.n]

\* clearDnsCache(), followed in the history.
ClearDnsCacheOp == ClearDnsCacheBody /\ reported' = Noted("clearDnsCache", 0, 0)

\* getDnsCacheStats(): dnsCache.size and the maximum the function names.
getDnsCacheStats(cache) == [size |-> Len(cache), max |-> 1000]

DnsCacheStatsOp ==
  /\ reported' = Noted("getDnsCacheStats", getDnsCacheStats(dnsCache).size,
                       getDnsCacheStats(dnsCache).max)
  /\ UNCHANGED << guardVars, limiterVars, classifierVars, routeVars, processKept >>

\* Time passes.
Tick ==
  /\ now < MaxTicks * GuardTickMs
  /\ now' = now + GuardTickMs
  /\ live' = [h \in DOMAIN live |->
                SelectSeq(live[h], LAMBDA e : now' - e.at <= DNS_CACHE_TTL_MS)]
  /\ UNCHANGED << dnsCache, pc, arg, q4, q6, result, used, stats, expected, sawStale >>
  /\ GuardFrame

\* The hostnames validateUrl looks up for the texts of the model.
LookupHosts ==
  { HostOf(c) : c \in { d \in UrlCandidates \cup CacheCandidates \cup OrderCandidates :
                          CheckUrl(d) = NoResult } }

GuardInit ==
  /\ now = 0
  /\ dnsCache = <<>>
  /\ pc = [p \in Procs |-> "idle"]
  /\ arg = [p \in Procs |-> Candidate("", Name(""))]
  /\ q4 = [p \in Procs |-> NotStarted]
  /\ q6 = [p \in Procs |-> NotStarted]
  /\ result = [p \in Procs |-> NoResult]
  /\ used = [p \in Procs |-> <<>>]
  /\ stats = [p \in Procs |-> NoStats]
  /\ live = [h \in LookupHosts |-> <<>>]
  /\ expected = [p \in Procs |-> <<>>]
  /\ sawStale = [p \in Procs |-> FALSE]

AllOutcomes4 ==
  UNION { Resolve4Outcomes(HostOf(c)) : c \in UrlCandidates \cup CacheCandidates \cup OrderCandidates }
AllOutcomes6 ==
  UNION { Resolve6Outcomes(HostOf(c)) : c \in UrlCandidates \cup CacheCandidates \cup OrderCandidates }

\* The steps of the validations, v1 called with a text of cands1 and v2 with
\* a text of cands2.
GuardSteps(cands1, cands2) ==
  \/ \E c \in cands1 : ValidateCall("v1", c)
  \/ \E c \in cands2 : ValidateCall("v2", c)
  \/ \E p \in Procs, o4 \in AllOutcomes4, o6 \in AllOutcomes6 : ResolveDone(p, o4, o6)
  \/ \E p \in Procs : Return(p)
  \/ Tick

GuardNext == GuardSteps(UrlCandidates, ConcurrentCandidates)

CacheNext == GuardSteps(CacheCandidates, CacheConcurrentCandidates) \/ ClearDnsCache

OrderNext == GuardSteps(OrderCandidates, OrderConcurrentCandidates)

\* The two lookups of a resolution one by one: resolver.resolve4(hostname)
\* settles with the outcome o, fulfilled, rejected by the resolver or
\* rejected on its timeout.
Resolve4Settles(p, o) ==
  /\ pc[p] = "resolving"
  /\ q4[p] = Pending
  /\ o \in Resolve4Outcomes(HostOf(arg[p]))
  /\ q4' = [q4 EXCEPT ![p] = o]
  /\ UNCHANGED << now, dnsCache, pc, arg, q6, result, used, stats, live, expected, sawStale >>
  /\ GuardFrame

\* resolver.resolve6(hostname) settles with the outcome o.
Resolve6Settles(p, o) ==
  /\ pc[p] = "resolving"
  /\ q6[p] = Pending
  /\ o \in Resolve6Outcomes(HostOf(arg[p]))
  /\ q6' = [q6 EXCEPT ![p] = o]
  /\ UNCHANGED << now, dnsCache, pc, arg, q4, result, used, stats, live, expected, sawStale >>
  /\ GuardFrame

\* A continuation that runs as soon as one lookup has settled and takes the
\* other one as it settles then.
AnySettled(p) ==
  /\ q4[p] # Pending \/ q6[p] # Pending
  /\ \E o4 \in AllOutcomes4, o6 \in AllOutcomes6 :
       /\ q4[p] # Pending => o4 = q4[p]
       /\ q6[p] # Pending => o6 = q6[p]
       /\ ResolveDone(p, o4, o6)

\* Promise.allSettled resolves once both lookups have settled, and
\* resolveHostAddresses and validateUrl continue with the two outcomes.
AllSettled(p) ==
  /\ q4[p] # Pending
  /\ q6[p] # Pending
  /\ ResolveDone(p, q4[p], q6[p])

\* The URL texts of the scenarios on the lookups.
LookupCandidates ==
  { Candidate("http", Name("EXAMPLE.com")),
    Candidate("https", Name("empty.test")),
    Candidate("http", V4(127, 0, 0, 1)) }

LookupNext ==
  \/ \E c \in LookupCandidates : ValidateCall("v1", c)
  \/ \E c \in ConcurrentCandidates : ValidateCall("v2", c)
  \/ \E p \in Procs, o \in AllOutcomes4 : Resolve4Settles(p, o)
  \/ \E p \in Procs, o \in AllOutcomes6 : Resolve6Settles(p, o)
  \/ \E p \in Procs : AllSettled(p)
  \/ \E p \in Procs : Return(p)

(***************************************************************************)
(* part_003: the rate limiter                                              *)
(***************************************************************************)
\* RATE_LIMIT_REQUESTS: parseInt(process.env.RATE_LIMIT_REQUESTS || "5"),
\* here a small limit of the environment.
RATE_LIMIT_REQUESTS == 2

\* RATE_LIMIT_WINDOW_MS: parseInt(process.env.RATE_LIMIT_WINDOW_MS || "60000")
RATE_LIMIT_WINDOW_MS == 60000

\* max of rateLimitStore, scaled down from 10000
RateStoreMax == 2

\* The limiter's clock advances in steps of half a window, up to MaxLimiterTicks steps.
LimiterTickMs == RATE_LIMIT_WINDOW_MS \div 2
MaxLimiterTicks == 2

\* The requests that can be in the middleware together.
Reqs == { "r1", "r2" }

\* connInfo.remote.address of the requests; "" is a connection without one.
RemoteAddresses == { "192.0.2.1", "192.0.2.2", "" }
\* The addresses of the scenarios with two requests in the middleware.
PairAddresses == { "192.0.2.1", "" }
ConcurrentAddresses == { "192.0.2.1" }

\* getClientIp(c): connInfo?.remote?.address || "unknown"
getClientIp(address) == IF address = "" THEN "unknown" ELSE address

Identities == { getClientIp(a) : a \in RemoteAddresses }

\* Math.min(...timestamps) of a non-empty list
MathMin(timestamps) ==
  CHOOSE m \in { timestamps[i] : i \in 1..Len(timestamps) } :
    \A i \in 1..Len(timestamps) : m <= timestamps[i]

\* A rounding down in place of Math.ceil.
MathFloor(x, d) == x \div d

\* Math.ceil(x / d)
MathCeil(x, d) == -((-x) \div d)

\* A limiter that denies only above the limit.
rateLimiterOffByOne(store, ip, t) ==
  LET windowStart == t - RATE_LIMIT_WINDOW_MS
      got == CacheGet(store, ip, RATE_LIMIT_WINDOW_MS, t)
      timestamps == SelectSeq(got.value, LAMBDA x : x > windowStart)
  IN  IF Len(timestamps) > RATE_LIMIT_REQUESTS
      THEN [store |-> got.cache, admitted |-> FALSE, status |-> 429,
            retryAfter |-> MathCeil(MathMin(timestamps) + RATE_LIMIT_WINDOW_MS - t, 1000)]
      ELSE [store |-> CacheSet(got.cache, ip, Append(timestamps, t), RateStoreMax, t),
            admitted |-> TRUE, status |-> 0, retryAfter |-> 0]

\* A limiter that never drops a timestamp from the list.
rateLimiterNoTrim(store, ip, t) ==
  LET i == CacheIndex(store, ip)
      timestamps == IF i = 0 THEN <<>> ELSE store[i].value
  IN  IF Len(timestamps) >= RATE_LIMIT_REQUESTS
      THEN [store |-> store, admitted |-> FALSE, status |-> 429,
            retryAfter |-> MathCeil(MathMin(timestamps) + RATE_LIMIT_WINDOW_MS - t, 1000)]
      ELSE [store |-> CacheSet(store, ip, Append(timestamps, t), RateStoreMax, t),
            admitted |-> TRUE, status |-> 0, retryAfter |-> 0]

\* A limiter that keeps a timestamp exactly one window old.
rateLimiterInclusive(store, ip, t) ==
  LET windowStart == t - RATE_LIMIT_WINDOW_MS
      got == CacheGet(store, ip, RATE_LIMIT_WINDOW_MS, t)
      timestamps == SelectSeq(got.value, LAMBDA x : x >= windowStart)
  IN  IF Len(timestamps) >= RATE_LIMIT_REQUESTS
      THEN [store |-> got.cache, admitted |-> FALSE, status |-> 429,
            retryAfter |-> MathCeil(MathMin(timestamps) + RATE_LIMIT_WINDOW_MS - t, 1000)]
      ELSE [store |-> CacheSet(got.cache, ip, Append(timestamps, t), RateStoreMax, t),
            admitted |-> TRUE, status |-> 0, retryAfter |-> 0]

\* A limiter that stores the trimmed list before it answers 429.
rateLimiterPersistsOnDenial(store, ip, t) ==
  LET windowStart == t - RATE_LIMIT_WINDOW_MS
      got == CacheGet(store, ip, RATE_LIMIT_WINDOW_MS, t)
      timestamps == SelectSeq(got.value, LAMBDA x : x > windowStart)
  IN  IF Len(timestamps) >= RATE_LIMIT_REQUESTS
      THEN [store |-> CacheSet(got.cache, ip, timestamps, RateStoreMax, t),
            admitted |-> FALSE, status |-> 429,
            retryAfter |-> MathCeil(MathMin(timestamps) + RATE_LIMIT_WINDOW_MS - t, 1000)]
      ELSE [store |-> CacheSet(got.cache, ip, Append(timestamps, t), RateStoreMax, t),
            admitted |-> TRUE, status |-> 0, retryAfter |-> 0]

\* A limiter that also counts the calls it denies.
rateLimiterCountsDenied(store, ip, t) ==
  LET windowStart == t - RATE_LIMIT_WINDOW_MS
      got == CacheGet(store, ip, RATE_LIMIT_WINDOW_MS, t)
      timestamps == SelectSeq(got.value, LAMBDA x : x > windowStart)
  IN  IF Len(timestamps) >= RATE_LIMIT_REQUESTS
      THEN [store |-> CacheSet(got.cache, ip, Append(timestamps, t), RateStoreMax, t),
            admitted |-> FALSE, status |-> 429,
            retryAfter |-> MathCeil(MathMin(timestamps) + RATE_LIMIT_WINDOW_MS - t, 1000)]
      ELSE [store |-> CacheSet(got.cache, ip, Append(timestamps, t), RateStoreMax, t),
            admitted |-> TRUE, status |-> 0, retryAfter |-> 0]

\* The middleware of rateLimiter() from its start to its 429 response or to
\* its call of next(), for the identity ip at Date.now() = t: the store
\* afterwards and the decision.  A denial returns before the store is
\* written.  Nothing is awaited in this part, so it runs as one step.
rateLimiter(store, ip, t) ==
  LET windowStart == t - RATE_LIMIT_WINDOW_MS
      got == CacheGet(store, ip, RATE_LIMIT_WINDOW_MS, t)
      timestamps == SelectSeq(got.value, LAMBDA x : x > windowStart)
  IN  IF Len(timestamps) >= RATE_LIMIT_REQUESTS
      THEN [store |-> got.cache, admitted |-> FALSE, status |-> 429,
            retryAfter |-> MathCeil(MathMin(timestamps) + RATE_LIMIT_WINDOW_MS - t, 1000)]
      ELSE [store |-> CacheSet(got.cache, ip, Append(timestamps, t), RateStoreMax, t),
            admitted |-> TRUE, status |-> 0, retryAfter |-> 0]

NoResponse == [status |-> 0, retryAfter |-> 0]

\* What the steps of the rate limiter leave alone.
LimiterFrame == UNCHANGED << guardVars, classifierVars, routeVars, processVars >>

NoHint == [release |-> -1, denials |-> 0, met |-> FALSE]

\* The history of hints after a call of the identity at time t that was
\* admitted, or denied with the hint retryAfter.
HintsAfter(h, admitted, retryAfter, t) ==
  LET old == IF h.met THEN NoHint ELSE h
      to == t + 1000 * retryAfter
  IN  IF admitted
      THEN IF old.release = -1 THEN NoHint ELSE [old EXCEPT !.met = TRUE]
      ELSE [release |-> IF old.release = -1 \/ to < old.release THEN to ELSE old.release,
            denials |-> IF old.denials < 2 THEN old.denials + 1 ELSE 2,
            met |-> FALSE]

\* A request from the remote address enters the middleware.
RateLimiterBody(r, address) ==
  /\ rpc[r] = "idle"
  /\ LET ip == getClientIp(address)
         out == rateLimiter(rateLimitStore, ip, clock)
         dropped == (CacheKeys(rateLimitStore) \ CacheKeys(out.store)) \ { ip }
     IN  /\ rateLimitStore' = out.store
         /\ rip' = [rip EXCEPT ![r] = ip]
         /\ rpc' = [rpc EXCEPT ![r] = IF out.admitted THEN "next" ELSE "denied"]
         /\ response' = [response EXCEPT ![r] =
                           [status |-> out.status, retryAfter |-> out.retryAfter]]
         /\ admissions' = [k \in DOMAIN admissions |->
                             IF k = ip /\ out.admitted THEN Append(admissions[k], clock)
                             ELSE IF k \in dropped THEN <<>>
                             ELSE admissions[k]]
  /\ UNCHANGED clock
  /\ LimiterFrame

RateLimiterCall(r, address) ==
  RateLimiterBody(r, address) /\ UNCHANGED << hinted, authVars >>

\* The same step in the scenarios on re-admission, where the hints of the
\* denials are kept.
RateLimiterCallNoted(r, address) ==
  /\ RateLimiterBody(r, address)
  /\ LET ip == getClientIp(address)
         out == rateLimiter(rateLimitStore, ip, clock)
     IN  hinted' = [hinted EXCEPT ![ip] =
                      HintsAfter(hinted[ip], out.admitted, out.retryAfter, clock)]
  /\ UNCHANGED authVars

\* next() has returned, or the 429 response was sent: the middleware returns.
HandlerReturnBody(r) ==
  /\ rpc[r] # "idle"
  /\ rpc' = [rpc EXCEPT ![r] = "idle"]
  /\ rip' = [rip EXCEPT ![r] = ""]
  /\ response' = [response EXCEPT ![r] = NoResponse]
  /\ UNCHANGED << clock, rateLimitStore, admissions, hinted >>
  /\ LimiterFrame

HandlerReturn(r) == HandlerReturnBody(r) /\ UNCHANGED authVars

\* The Authorization header of a request: absent, "Bearer <token>", or a
\* value that is no bearer credential (as "Basic dXNlcg==").
NoHeader == [k |-> "none", token |-> ""]
Bearer(token) == [k |-> "bearer", token |-> token]
NotBearer == [k |-> "other", token |-> ""]

NoKey == ""
ApiKeys == { NoKey, "secret" }
AuthHeaders == { NoHeader, NotBearer, Bearer("secret"), Bearer("guess") }

\* A middleware that lets every bearer token pass.
apiKeyAuthAnyToken(key, header) ==
  IF key = NoKey THEN 0
  ELSE IF header.k = "none" THEN 401
  ELSE IF header.k # "bearer" THEN 400
  ELSE 0

\* apiKeyAuth(): the status of the response the middleware makes itself, 0
\* when it calls next().  Without API_KEY it calls next() at once; with it,
\* bearerAuth answers 401 to a request without the header, 400 to a header
\* that is no bearer credential and 401 to a token other than the key.
apiKeyAuth(key, header) ==
  IF key = NoKey THEN 0
  ELSE IF header.k = "none" THEN 401
  ELSE IF header.k # "bearer" THEN 400
  ELSE IF header.token = key THEN 0
  ELSE 401

\* A request enters apiKeyAuth, the first middleware of its path.
ApiKeyAuthCall(r, header) ==
  /\ apc[r] = "idle"
  /\ rpc[r] = "idle"
  /\ LET status == apiKeyAuth(apiKey, header)
     IN  /\ apc' = [apc EXCEPT ![r] = IF status = 0 THEN "next" ELSE "rejected"]
         /\ response' = [response EXCEPT ![r] = [status |-> status, retryAfter |-> 0]]
  /\ authz' = [authz EXCEPT ![r] = header]
  /\ UNCHANGED << clock, rateLimitStore, rpc, rip, admissions, hinted, apiKey >>
  /\ LimiterFrame

\* next() of apiKeyAuth: the request enters rateLimiter.
AuthorizedCall(r, address) ==
  /\ apc[r] = "next"
  /\ RateLimiterBody(r, address)
  /\ apc' = [apc EXCEPT ![r] = "inner"]
  /\ UNCHANGED << hinted, apiKey, authz >>

\* rateLimiter has returned to apiKeyAuth, which returns.
AuthorizedReturn(r) ==
  /\ apc[r] = "inner"
  /\ HandlerReturnBody(r)
  /\ apc' = [apc EXCEPT ![r] = "idle"]
  /\ authz' = [authz EXCEPT ![r] = NoHeader]
  /\ UNCHANGED apiKey

\* The response of apiKeyAuth itself was sent.
RejectedReturn(r) ==
  /\ apc[r] = "rejected"
  /\ apc' = [apc EXCEPT ![r] = "idle"]
  /\ authz' = [authz EXCEPT ![r] = NoHeader]
  /\ response' = [response EXCEPT ![r] = NoResponse]
  /\ UNCHANGED << clock, rateLimitStore, rpc, rip, admissions, hinted, apiKey >>
  /\ LimiterFrame

\* clearRateLimitStore(): rateLimitStore.clear()
ClearRateLimitStoreBody ==
  /\ rateLimitStore' = <<>>
  /\ admissions' = [k \in DOMAIN admissions |-> <<>>]
  /\ UNCHANGED << clock, rpc, rip, response, hinted, authVars >>
  /\ UNCHANGED << guardVars, classifierVars, routeVars, processKept >>

\* clearRateLimitStore() of a store that holds something
ClearRateLimitStore ==
  rateLimitStore # <<>> /\ ClearRateLimitStoreBody /\ UNCHANGED reported

\* clearRateLimitStore(), followed in the history.
ClearRateLimitStoreOp ==
  ClearRateLimitStoreBody /\ reported' = Noted("clearRateLimitStore", 0, 0)

\* getRateLimitStats(): rateLimitStore.size and the maximum the function names.
getRateLimitStats(store) == [size |-> Len(store), max |-> 10000]

RateLimitStatsOp ==
  /\ reported' = Noted("getRateLimitStats", getRateLimitStats(rateLimitStore).size,
                       getRateLimitStats(rateLimitStore).max)
  /\ UNCHANGED << guardVars, limiterVars, classifierVars, routeVars, processKept >>

\* The names validated in the scenarios on the clear and stats functions.
MaintenanceCandidates ==
  { Candidate("http", Name("a.test")), Candidate("http", Name("b.test")) }

MaintenanceNext ==
  \/ \E c \in MaintenanceCandidates : ValidateCall("v1", c)
  \/ \E o4 \in AllOutcomes4, o6 \in AllOutcomes6 : ResolveDone("v1", o4, o6)
  \/ Return("v1")
  \/ \E a \in PairAddresses : RateLimiterCall("r1", a)
  \/ HandlerReturn("r1")
  \/ ClearDnsCacheOp
  \/ DnsCacheStatsOp
  \/ ClearRateLimitStoreOp
  \/ RateLimitStatsOp

\* Time passes.
LimiterTick ==
  /\ clock < MaxLimiterTicks * LimiterTickMs
  /\ clock' = clock + LimiterTickMs
  /\ admissions' = [k \in DOMAIN admissions |->
                      SelectSeq(admissions[k],
                                LAMBDA x : x > clock' - RATE_LIMIT_WINDOW_MS - LimiterTickMs)]
  /\ UNCHANGED << rateLimitStore, rpc, rip, response, hinted, authVars >>
  /\ LimiterFrame

\* The scenarios on the capacity of the store run for MaxStoreTicks half
\* windows, so that an entry outlives its ttl.
MaxStoreTicks == 3

StoreTick ==
  /\ clock < MaxStoreTicks * LimiterTickMs
  /\ clock' = clock + LimiterTickMs
  /\ admissions' = [k \in DOMAIN admissions |->
                      SelectSeq(admissions[k],
                                LAMBDA x : x > clock' - RATE_LIMIT_WINDOW_MS - LimiterTickMs)]
  /\ UNCHANGED << rateLimitStore, rpc, rip, response, hinted, authVars >>
  /\ LimiterFrame

\* The steps of Date.now() in the scenarios on the retry hint, so that the
\* time left in the window is no whole number of seconds.
FineSteps == { 7001, 29999 }

\* Date.now() at which these scenarios end
MaxHintClock == 61000

\* Date.now() at which the scenarios on re-admission end
MaxRetryClock == 64000

\* The steps of Date.now() in the scenarios on re-admission
RetrySteps == { 20001, 29999 }

\* Time passes, by one of the steps, up to max.
FineTickBy(steps, max) ==
  /\ \E d \in steps :
       /\ clock + d <= max
       /\ clock' = clock + d
  /\ admissions' = [k \in DOMAIN admissions |->
                      SelectSeq(admissions[k], LAMBDA x : x > clock' - RATE_LIMIT_WINDOW_MS)]
  /\ UNCHANGED << rateLimitStore, rpc, rip, response, hinted, authVars >>
  /\ LimiterFrame

FineTick == FineTickBy(FineSteps, MaxHintClock)

RetryTick == FineTickBy(RetrySteps, MaxRetryClock)

LimiterStart(key) ==
  /\ apiKey = key
  /\ apc = [r \in Reqs |-> "idle"]
  /\ authz = [r \in Reqs |-> NoHeader]
  /\ clock = 0
  /\ rateLimitStore = <<>>
  /\ rpc = [r \in Reqs |-> "idle"]
  /\ rip = [r \in Reqs |-> ""]
  /\ response = [r \in Reqs |-> NoResponse]
  /\ admissions = [k \in Identities |-> <<>>]
  /\ hinted = [k \in Identities |-> NoHint]

LimiterInit == LimiterStart(NoKey)

AuthNext ==
  \/ \E r \in Reqs, h \in AuthHeaders : ApiKeyAuthCall(r, h)
  \/ \E a \in PairAddresses : AuthorizedCall("r1", a)
  \/ \E a \in ConcurrentAddresses : AuthorizedCall("r2", a)
  \/ \E r \in Reqs : AuthorizedReturn(r)
  \/ \E r \in Reqs : RejectedReturn(r)
  \/ LimiterTick

LimiterNext ==
  \/ \E a \in PairAddresses : RateLimiterCall("r1", a)
  \/ \E a \in ConcurrentAddresses : RateLimiterCall("r2", a)
  \/ \E r \in Reqs : HandlerReturn(r)
  \/ ClearRateLimitStore
  \/ LimiterTick

StoreNext ==
  \/ \E a \in RemoteAddresses : RateLimiterCall("r1", a)
  \/ HandlerReturn("r1")
  \/ ClearRateLimitStore
  \/ StoreTick

RetryNext ==
  \/ \E a \in PairAddresses : RateLimiterCallNoted("r1", a)
  \/ HandlerReturn("r1")
  \/ RetryTick

HintNext ==
  \/ \E a \in PairAddresses : RateLimiterCall("r1", a)
  \/ \E r \in Reqs : HandlerReturn(r)
  \/ FineTick

(***************************************************************************)
(* The classifier on its own: one text, classified as it is and, when it   *)
(* is an IPv4 address, in its IPv4-mapped IPv6 forms, as a literal of a    *)
(* URL and as a record of a resolution.                                    *)
(***************************************************************************)
FirstOctets == { 0, 8, 10, 93, 100, 127, 169, 172, 192, 198, 203, 224, 240, 255 }
SecondOctets == { 0, 15, 16, 18, 31, 32, 51, 63, 64, 88, 127, 128, 168, 175, 254, 255 }
ThirdOctets == { 0, 2, 99, 100, 255 }
FourthOctets == { 0, 1, 255 }

V4Subjects ==
  { V4(a, b, c, d) : a \in FirstOctets, b \in SecondOctets, c \in ThirdOctets, d \in FourthOctets }

V6Subjects ==
  { V6(<<0, 0, 0, 0, 0, 0, 0, 0>>),            \* ::
    V6(<<0, 0, 0, 0, 0, 0, 0, 1>>),            \* ::1
    V6(<<65152, 0, 0, 0, 0, 0, 0, 1>>),        \* fe80::1
    V6(<<65282, 0, 0, 0, 0, 0, 0, 1>>),        \* ff02::1
    V6(<<64512, 0, 0, 0, 0, 0, 0, 1>>),        \* fc00::1
    V6(<<64786, 0, 0, 0, 0, 0, 0, 1>>),        \* fd12::1
    V6(<<8194, 32512, 1, 0, 0, 0, 0, 1>>),     \* 2002:7f00:1::1
    V6(<<8193, 0, 0, 0, 0, 0, 0, 1>>),         \* 2001::1
    V6(<<8193, 2, 0, 0, 0, 0, 0, 1>>),         \* 2001:2::1
    V6(<<8193, 3512, 0, 0, 0, 0, 0, 1>>),      \* 2001:db8::1
    V6(<<256, 0, 0, 0, 0, 0, 0, 1>>),          \* 100::1
    V6(<<65216, 0, 0, 0, 0, 0, 0, 1>>),        \* fec0::1
    V6(<<100, 65435, 0, 0, 0, 0, 32512, 1>>),  \* 64:ff9b::7f00:1
    V6(<<0, 0, 0, 0, 65535, 0, 32512, 1>>),    \* ::ffff:0:7f00:1
    V6(<<0, 0, 0, 0, 0, 65535, 32512, 1>>),    \* ::ffff:7f00:1
    V6(<<0, 0, 0, 0, 0, 65535, 2056, 2056>>),  \* ::ffff:808:808
    V6T(<<0, 0, 0, 0, 0, 0>>, 127, 0, 0, 1),   \* ::127.0.0.1
    V6T(<<0, 0, 0, 0, 0, 65535>>, 8, 8, 8, 8), \* ::ffff:8.8.8.8
    MappedLoopbackV6,                          \* ::ffff:127.0.0.1
    PublicV6 }

InvalidSubjects ==
  { Name("localhost"), Name(""), Name("127.0.0.1.example.com"),
    V4(256, 0, 0, 1), V4(127, 0, 0, 256),
    V6(<<0, 0, 0, 0, 0, 0, 1>>), V6(<<65536, 0, 0, 0, 0, 0, 0, 1>>),
    V6T(<<0, 0, 0, 0, 0, 65535>>, 127, 0, 0, 256),
    Bracketed(V6(<<0, 0, 0, 0, 0, 0, 0, 1>>)) }

Subjects == V4Subjects \cup V6Subjects \cup InvalidSubjects

\* The IPv4-mapped IPv6 texts of an IPv4 text: ::ffff:a.b.c.d and ::ffff:xxxx:xxxx
MappedDotted(t) ==
  V6T(<<0, 0, 0, 0, 0, 65535>>, t.parts[1], t.parts[2], t.parts[3], t.parts[4])
MappedHex(t) ==
  V6(<<0, 0, 0, 0, 0, 65535, t.parts[1] * 256 + t.parts[2], t.parts[3] * 256 + t.parts[4]>>)

NoVerdict ==
  [plain |-> "none", dotted |-> "none", hex |-> "none", literal |-> NoResult, record |-> NoResult]

Said(b) == IF b THEN "forbidden" ELSE "permitted"

\* What the steps of the classifier scenario leave alone.
ClassifierFrame ==
  UNCHANGED << guardVars, limiterVars, disallowedRanges, routeVars, processVars >>

\* isAddressForbidden(subject)
Classify ==
  /\ cpc = "given"
  /\ verdict' = [verdict EXCEPT !.plain = Said(isAddressForbidden(subject))]
  /\ cpc' = "classified"
  /\ UNCHANGED subject
  /\ ClassifierFrame

\* isAddressForbidden of the IPv4-mapped forms of an IPv4 subject
ClassifyMapped ==
  /\ cpc = "classified"
  /\ IPv4IsValid(subject)
  /\ verdict' = [verdict EXCEPT !.dotted = Said(isAddressForbidden(MappedDotted(subject))),
                                !.hex = Said(isAddressForbidden(MappedHex(subject)))]
  /\ cpc' = "mapped"
  /\ UNCHANGED subject
  /\ ClassifierFrame

\* validateUrl of http://[::ffff:a.b.c.d]/ with the lookups settling as o4
\* and o6, and the decision of validateUrl over the records of a name that
\* resolves to a public address and to ::ffff:a.b.c.d.
ValidateMapped(o4, o6) ==
  /\ cpc = "mapped"
  /\ LET c == Candidate("http", Bracketed(MappedDotted(subject)))
         early == CheckUrl(c)
     IN  /\ o4 \in Resolve4Outcomes(HostOf(c))
         /\ o6 \in Resolve6Outcomes(HostOf(c))
         /\ verdict' = [verdict EXCEPT
              !.literal = IF early # NoResult THEN early
                          ELSE AfterResolve(HostOf(c), resolveHostAddresses(o4, o6)),
              !.record = CheckRecords(Name("example.com"),
                                      << PublicV4, MappedDotted(subject) >>)]
  /\ cpc' = "validated"
  /\ UNCHANGED subject
  /\ ClassifierFrame

ClassifierOff ==
  /\ subject = NoTok
  /\ cpc = "off"
  /\ verdict = NoVerdict
  /\ disallowedRanges = DISALLOWED_IP_RANGES

ClassifierInit ==
  /\ subject \in Subjects
  /\ cpc = "given"
  /\ verdict = NoVerdict
  /\ disallowedRanges = DISALLOWED_IP_RANGES

ClassifierNext ==
  \/ Classify
  \/ ClassifyMapped
  \/ \E o4 \in AllOutcomes4, o6 \in AllOutcomes6 : ValidateMapped(o4, o6)

(***************************************************************************)
(* routes.ts and part_002: the handlers of /process and /content behind    *)
(* the rate limiter, and fetchPage with its page.route hook                *)
(***************************************************************************)
\* The request bodies: one that is no JSON, and { url } with these texts.
InvalidJson == CandidateAt("", Name("{"), "")

RouteCandidates ==
  { Candidate("ftp", Name("a.test")),
    Candidate("https", Name("a.test")),
    Candidate("http", V4(127, 0, 0, 1)) }

RouteBodies == { InvalidJson } \cup RouteCandidates

\* The requests a page makes for its sub-resources: of the site, of a
\* loopback address, and of a scheme other than http and https.
SubCandidates ==
  { CandidateAt("https", Name("a.test"), "style.css"),
    CandidateAt("http", V4(127, 0, 0, 1), "admin"),
    CandidateAt("data", Name(""), "image/png") }

\* The remote address of the requests of these scenarios.
RouteAddresses == { "192.0.2.1" }

\* The browser contexts there can be at a time.
ContextIds == { "ctx1", "ctx2" }

NoTarget == Candidate("", Name(""))

NoCaller == [of |-> "", kind |-> ""]
Caller(r, kind) == [of |-> r, kind |-> kind]

NoAnswer == [status |-> 0, error |-> "", reason |-> NoResult]
Answer400(error, reason) == [status |-> 400, error |-> error, reason |-> reason]
AnswerOf(status, error) == [status |-> status, error |-> error, reason |-> NoResult]

PageRequest(r, kind, c) == [of |-> r, kind |-> kind, url |-> c]

\* processRequestSchema.safeParse(body).success: url is a string that
\* parses as a URL and starts with "http://" or "https://".
SchemaAccepts(c) == ParseUrl(c).ok /\ c.scheme \in { "http", "https" }

\* The timeout field of a request body: absent, a whole number n, the
\* number n + 0.5, or the string of n.
NoTimeout == [k |-> "absent", ms |-> 0]
Millis(n) == [k |-> "integer", ms |-> n]
Fraction(n) == [k |-> "fraction", ms |-> n]
Text(n) == [k |-> "string", ms |-> n]

\* .min(1000) and .max(120000) of the timeout of processRequestSchema
MinRequestTimeout == 1000
MaxRequestTimeout == 120000

\* A schema without the upper bound of the timeout.
TimeoutAcceptedNoMax(t) ==
  t.k = "absent" \/ (t.k = "integer" /\ t.ms >= MinRequestTimeout)

\* processRequestSchema: timeout is z.number().int().min(1000).max(120000)
\* .optional().
TimeoutAccepted(t) ==
  \/ t.k = "absent"
  \/ t.k = "integer" /\ t.ms >= MinRequestTimeout /\ t.ms <= MaxRequestTimeout

\* requestUrl.startsWith("http://") || requestUrl.startsWith("https://")
StartsWithHttp(c) == c.scheme \in { "http", "https" }

InFetch(r) ==
  hpc[r] \in { "newContext", "setup", "blockerLoad", "blockerWait", "loading",
              "closing", "failing" }

\* The validateUrl call made for the request by the route handler.
RouteCallOf(r) == CHOOSE p \in Procs : caller[p] = Caller(r, "route")

Requested(r) ==
  { w.url : w \in { x \in wire \cup aborted : x.of = r } }
  \cup { arg[p] : p \in { q \in Procs : caller[q].of = r /\ caller[q].kind \in { "navigation", "sub" } } }

NavigationSent(r) == \E w \in wire : w.of = r /\ w.kind = "navigation"

NavigationAsked(r) ==
  \/ \E w \in wire \cup aborted : w.of = r /\ w.kind = "navigation"
  \/ \E p \in Procs : caller[p] = Caller(r, "navigation")

RouteFrame == UNCHANGED << guardVars, limiterVars, classifierVars >>

\* A validateUrl call that is not running: the one the next caller starts.
SomeFree == \E p \in Procs : caller[p] = NoCaller
FreeCall == CHOOSE p \in Procs : caller[p] = NoCaller

\* The handler of app.post("/process") or of app.post("/content"), called by
\* next() of the rate limiter, up to its await of validateUrl(url): the body
\* is parsed and checked against the schema.
HandlerBody(r, path, body, t) ==
  /\ rpc[r] = "next"
  /\ hpc[r] = "none"
  /\ endpoint' = [endpoint EXCEPT ![r] = path]
  /\ LET accepted == SchemaAccepts(body) /\ TimeoutAccepted(t)
     IN  /\ target' = [target EXCEPT ![r] = IF accepted THEN body ELSE NoTarget]
         /\ timeout' = [timeout EXCEPT ![r] = IF body = InvalidJson THEN NoTimeout ELSE t]
  /\ IF body = InvalidJson
     THEN /\ hres' = [hres EXCEPT ![r] = AnswerOf(400, "Invalid JSON")]
          /\ hpc' = [hpc EXCEPT ![r] = "answered"]
          /\ UNCHANGED << guardVars, caller >>
     ELSE IF ~(SchemaAccepts(body) /\ TimeoutAccepted(t))
     THEN /\ hres' = [hres EXCEPT ![r] = AnswerOf(400, "Validation failed")]
          /\ hpc' = [hpc EXCEPT ![r] = "answered"]
          /\ UNCHANGED << guardVars, caller >>
     ELSE /\ SomeFree
          /\ ValidateUrlBegin(FreeCall, body)
          /\ caller' = [caller EXCEPT ![FreeCall] = Caller(r, "route")]
          /\ hpc' = [hpc EXCEPT ![r] = "validating"]
          /\ UNCHANGED hres
  /\ UNCHANGED << fctx, open, wire, aborted >>
  /\ UNCHANGED << limiterVars, classifierVars >>
  /\ UNCHANGED << pageTimeout, cookies >>
  /\ UNCHANGED processVars

\* A handler that goes on to the browser whatever validateUrl returned.
\* The lazy connections that the history counts
MaxStarted == 2

\* The history after one more call of ensureBrowser has called connectBrowser.
Started(l) ==
  [l EXCEPT !.lazy = l.lazy + 1,
            !.started = IF l.started < MaxStarted THEN l.started + 1 ELSE l.started]

\* A getter that starts a connection whenever there is no browser.
getBrowserNoFlag(b, connecting, l) ==
  [value |-> b,
   connecting |-> IF b = "none" THEN TRUE ELSE connecting,
   link |-> IF b = "none" THEN Started(l) ELSE l]

\* A getter that connects again though there is a browser.
getBrowserReconnects(b, connecting, l) ==
  [value |-> b,
   connecting |-> IF ~connecting THEN TRUE ELSE connecting,
   link |-> IF ~connecting THEN Started(l) ELSE l]

\* getBrowser(): the value it returns, and browserConnecting and the calls of
\* ensureBrowser in flight after it: with no browser and none being
\* connected it calls ensureBrowser(), which sets browserConnecting and
\* calls connectBrowser() before getBrowser returns.
getBrowser(b, connecting, l) ==
  LET starts == b = "none" /\ ~connecting
  IN  [value |-> b,
       connecting |-> IF starts THEN TRUE ELSE connecting,
       link |-> IF starts THEN Started(l) ELSE l]

\* GET /ready: 503 not_ready when getBrowser() returns null, 200 ready
\* otherwise.
ReadyCall ==
  /\ phase = "listening"
  /\ LET got == getBrowser(browser, browserConnecting, link)
     IN  /\ browserConnecting' = got.connecting
         /\ link' = [got.link EXCEPT !.ready = IF got.value = "none" THEN 503 ELSE 200]
  /\ UNCHANGED << configVars, conn, reported, adBlocker, adBlockerLoading, browser >>
  /\ UNCHANGED << guardVars, limiterVars, classifierVars, routeVars >>

HandlerDecideNoCheck(r) ==
  /\ hpc[r] = "validating"
  /\ \E p \in Procs : caller[p] = Caller(r, "route")
  /\ pc[RouteCallOf(r)] = "done"
  /\ LET p == RouteCallOf(r)
     IN  /\ browserConnecting' = getBrowser(browser, browserConnecting, link).connecting
         /\ link' = getBrowser(browser, browserConnecting, link).link
         /\ IF getBrowser(browser, browserConnecting, link).value = "none"
            THEN /\ hres' = [hres EXCEPT ![r] = AnswerOf(503, "Browser not available")]
                 /\ hpc' = [hpc EXCEPT ![r] = "answered"]
                 /\ UNCHANGED pageTimeout
            ELSE /\ hpc' = [hpc EXCEPT ![r] = "newContext"]
                 /\ pageTimeout' = [pageTimeout EXCEPT ![r] =
                                      IF timeout[r].k = "absent" THEN fetchTimeoutMs
                                      ELSE timeout[r].ms]
                 /\ UNCHANGED hres
         /\ Release(p)
         /\ caller' = [caller EXCEPT ![p] = NoCaller]
  /\ UNCHANGED << endpoint, target, fctx, open, wire, aborted >>
  /\ UNCHANGED << limiterVars, classifierVars >>
  /\ UNCHANGED << timeout, cookies, configVars, conn, reported, adBlocker, adBlockerLoading, browser >>

\* The handler after its await of validateUrl: 400 with the reason on a
\* denial; otherwise getBrowser(), which starts ensureBrowser() when there
\* is no browser and none is being connected, 503 when it returns null, and
\* the call of fetchPage, which sets pageTimeout and runs to its await of
\* browser.newContext.
HandlerDecide(r) ==
  /\ hpc[r] = "validating"
  /\ \E p \in Procs : caller[p] = Caller(r, "route")
  /\ pc[RouteCallOf(r)] = "done"
  /\ LET p == RouteCallOf(r)
     IN  /\ IF result[p].kind # "allowed"
            THEN /\ hres' = [hres EXCEPT ![r] = Answer400("urlValidation.reason", result[p])]
                 /\ hpc' = [hpc EXCEPT ![r] = "answered"]
                 /\ UNCHANGED << pageTimeout, browserConnecting, link >>
            ELSE /\ browserConnecting' = getBrowser(browser, browserConnecting, link).connecting
                 /\ link' = getBrowser(browser, browserConnecting, link).link
                 /\ IF getBrowser(browser, browserConnecting, link).value = "none"
                    THEN /\ hres' = [hres EXCEPT ![r] = AnswerOf(503, "Browser not available")]
                         /\ hpc' = [hpc EXCEPT ![r] = "answered"]
                         /\ UNCHANGED pageTimeout
                    ELSE /\ hpc' = [hpc EXCEPT ![r] = "newContext"]
                         /\ pageTimeout' = [pageTimeout EXCEPT ![r] =
                                              IF timeout[r].k = "absent" THEN fetchTimeoutMs
                                              ELSE timeout[r].ms]
                         /\ UNCHANGED hres
         /\ Release(p)
         /\ caller' = [caller EXCEPT ![p] = NoCaller]
  /\ UNCHANGED << endpoint, target, fctx, open, wire, aborted >>
  /\ UNCHANGED << limiterVars, classifierVars >>
  /\ UNCHANGED << timeout, cookies, configVars, conn, reported, adBlocker, adBlockerLoading, browser >>

\* browser.newContext() has settled: fetchPage holds a context of its own,
\* or it throws and the handler answers 500.
NewContext(r, ok) ==
  /\ hpc[r] = "newContext"
  /\ IF ok
     THEN /\ ContextIds \ open # {}
          /\ LET id == CHOOSE i \in ContextIds \ open : TRUE
             IN  /\ open' = open \cup { id }
                 /\ fctx' = [fctx EXCEPT ![r] = id]
          /\ hpc' = [hpc EXCEPT ![r] = "setup"]
          /\ UNCHANGED hres
     ELSE /\ hres' = [hres EXCEPT ![r] = AnswerOf(500, "error.message")]
          /\ hpc' = [hpc EXCEPT ![r] = "answered"]
          /\ UNCHANGED << fctx, open >>
  /\ UNCHANGED << endpoint, target, caller, wire, aborted >>
  /\ RouteFrame
  /\ UNCHANGED << timeout, pageTimeout, cookies >>
  /\ UNCHANGED processVars

\* The consent configuration: null, or the patterns of a file.
Unset == [set |-> FALSE, patterns |-> {}]
Config(patterns) == [set |-> TRUE, patterns |-> patterns]

\* url.includes(m), for the texts m that are the host name or the first
\* path segment of a URL.
UrlIncludes(c, m) ==
  m # "" /\ ((c.host.k = "name" /\ m = c.host.name) \/ m = c.path)

\* getConsentCookies(url): the cookies of the patterns with a match text
\* that the url includes; none without a configuration.
getConsentCookies(config, url) ==
  IF ~config.set THEN {}
  ELSE UNION { pat.cookies :
                 pat \in { q \in config.patterns :
                             \E m \in q.match : UrlIncludes(url, m) } }

\* A getAdBlocker that does not look at adBlockerLoading.
SetupNoFlag(r, ok) ==
  /\ hpc[r] = "setup"
  /\ IF ~ok
     THEN /\ hpc' = [hpc EXCEPT ![r] = "failing"]
          /\ UNCHANGED adBlockerLoading
     ELSE IF adBlocker # "none"
     THEN /\ hpc' = [hpc EXCEPT ![r] = "loading"]
          /\ UNCHANGED adBlockerLoading
     ELSE /\ hpc' = [hpc EXCEPT ![r] = "blockerLoad"]
          /\ adBlockerLoading' = TRUE
  /\ cookies' = [cookies EXCEPT ![r] =
                   IF ok THEN getConsentCookies(consentConfig, target[r]) ELSE cookies[r]]
  /\ UNCHANGED << endpoint, target, hres, caller, fctx, open, wire, aborted >>
  /\ RouteFrame
  /\ UNCHANGED << timeout, pageTimeout >>
  /\ UNCHANGED << configVars, conn, reported, adBlocker, browser, browserConnecting, link >>

\* The cookies are added and context.newPage() has settled, or one of them
\* throws inside the try; then getAdBlocker() is called: it returns the
\* adblocker that is loaded, waits when another call is loading it, and
\* otherwise starts the load.  With the adblocker at hand page.route is set
\* up and page.goto is called.
Setup(r, ok) ==
  /\ hpc[r] = "setup"
  /\ IF ~ok
     THEN /\ hpc' = [hpc EXCEPT ![r] = "failing"]
          /\ UNCHANGED adBlockerLoading
     ELSE IF adBlocker # "none"
     THEN /\ hpc' = [hpc EXCEPT ![r] = "loading"]
          /\ UNCHANGED adBlockerLoading
     ELSE IF adBlockerLoading
     THEN /\ hpc' = [hpc EXCEPT ![r] = "blockerWait"]
          /\ UNCHANGED adBlockerLoading
     ELSE /\ hpc' = [hpc EXCEPT ![r] = "blockerLoad"]
          /\ adBlockerLoading' = TRUE
  /\ cookies' = [cookies EXCEPT ![r] =
                   IF ok THEN getConsentCookies(consentConfig, target[r]) ELSE cookies[r]]
  /\ UNCHANGED << endpoint, target, hres, caller, fctx, open, wire, aborted >>
  /\ RouteFrame
  /\ UNCHANGED << timeout, pageTimeout >>
  /\ UNCHANGED << configVars, conn, reported, adBlocker, browser, browserConnecting, link >>

\* A getAdBlocker without the finally: a load that fails leaves
\* adBlockerLoading set.
BlockerLoadedNoFinally(r, ok) ==
  /\ hpc[r] = "blockerLoad"
  /\ adBlocker' = IF ok THEN "loaded" ELSE adBlocker
  /\ adBlockerLoading' = IF ok THEN FALSE ELSE adBlockerLoading
  /\ hpc' = [hpc EXCEPT ![r] = "loading"]
  /\ UNCHANGED << endpoint, target, hres, caller, fctx, open, wire, aborted >>
  /\ RouteFrame
  /\ UNCHANGED << timeout, pageTimeout, cookies >>
  /\ UNCHANGED << configVars, conn, reported, browser, browserConnecting, link >>

\* PlaywrightBlocker.fromPrebuiltFull has settled in the call that started
\* it: the adblocker is kept, or the failure is logged and the page goes
\* without one; adBlockerLoading is reset, page.route is set up and
\* page.goto is called.
BlockerLoaded(r, ok) ==
  /\ hpc[r] = "blockerLoad"
  /\ adBlocker' = IF ok THEN "loaded" ELSE adBlocker
  /\ adBlockerLoading' = FALSE
  /\ hpc' = [hpc EXCEPT ![r] = "loading"]
  /\ UNCHANGED << endpoint, target, hres, caller, fctx, open, wire, aborted >>
  /\ RouteFrame
  /\ UNCHANGED << timeout, pageTimeout, cookies >>
  /\ UNCHANGED << configVars, conn, reported, browser, browserConnecting, link >>

\* The call that waits for the load of another call finds adBlockerLoading
\* reset at one of its polls and goes on with the adblocker there is.
BlockerWaited(r) ==
  /\ hpc[r] = "blockerWait"
  /\ ~adBlockerLoading
  /\ hpc' = [hpc EXCEPT ![r] = "loading"]
  /\ UNCHANGED << endpoint, target, hres, caller, fctx, open, wire, aborted >>
  /\ RouteFrame
  /\ UNCHANGED << timeout, pageTimeout, cookies >>
  /\ UNCHANGED processVars

\* connectBrowser() of the ensureBrowser() call in flight has settled: the
\* browser is kept, or the rejection is logged; browserConnecting is reset.
ConnectSettles(ok) ==
  /\ link.lazy > 0
  /\ browser' = IF ok THEN "connected" ELSE browser
  /\ browserConnecting' = FALSE
  /\ link' = [link EXCEPT !.lazy = link.lazy - 1,
                          !.made = IF ok THEN link.made + 1 ELSE link.made]
  /\ UNCHANGED << configVars, conn, reported, adBlocker, adBlockerLoading >>
  /\ UNCHANGED << guardVars, limiterVars, classifierVars, routeVars >>

\* The page makes a request and the hook of page.route("**/*") is called
\* with it: it awaits validateUrl for an http or https URL and continues
\* any other request at once.  The first request of a page is the
\* navigation to the url of page.goto; sub-resources are requested once the
\* navigation was sent.
HookCall(r, kind, c) ==
  /\ hpc[r] = "loading"
  /\ IF kind = "navigation"
     THEN c = target[r] /\ ~NavigationAsked(r)
     ELSE NavigationSent(r)
  /\ c \notin Requested(r)
  /\ IF StartsWithHttp(c)
     THEN /\ SomeFree
          /\ ValidateUrlBegin(FreeCall, c)
          /\ caller' = [caller EXCEPT ![FreeCall] = Caller(r, kind)]
          /\ UNCHANGED wire
     ELSE /\ wire' = wire \cup { PageRequest(r, kind, c) }
          /\ UNCHANGED << guardVars, caller >>
  /\ UNCHANGED << hpc, endpoint, target, hres, fctx, open, aborted >>
  /\ UNCHANGED << limiterVars, classifierVars >>
  /\ UNCHANGED << timeout, pageTimeout, cookies >>
  /\ UNCHANGED processVars

\* A hook that continues the request whatever validateUrl returned.
HookDoneContinuesAll(p) ==
  /\ caller[p].kind \in { "navigation", "sub" }
  /\ pc[p] = "done"
  /\ LET r == caller[p].of
         req == PageRequest(r, caller[p].kind, arg[p])
     IN  IF hpc[r] # "loading"
         THEN UNCHANGED << wire, aborted >>
         ELSE wire' = wire \cup { req } /\ UNCHANGED aborted
  /\ Release(p)
  /\ caller' = [caller EXCEPT ![p] = NoCaller]
  /\ UNCHANGED << hpc, endpoint, target, hres, fctx, open >>
  /\ UNCHANGED << limiterVars, classifierVars >>
  /\ UNCHANGED << timeout, pageTimeout, cookies >>
  /\ UNCHANGED processVars

\* A hook whose denial makes the fetch of the page fail.
HookDoneFailsFetch(p) ==
  /\ caller[p].kind \in { "navigation", "sub" }
  /\ pc[p] = "done"
  /\ LET r == caller[p].of
         req == PageRequest(r, caller[p].kind, arg[p])
     IN  IF hpc[r] # "loading"
         THEN UNCHANGED << wire, aborted, hpc >>
         ELSE IF result[p].kind = "allowed"
         THEN wire' = wire \cup { req } /\ UNCHANGED << aborted, hpc >>
         ELSE /\ aborted' = aborted \cup { req }
              /\ hpc' = [hpc EXCEPT ![r] = "failing"]
              /\ UNCHANGED wire
  /\ Release(p)
  /\ caller' = [caller EXCEPT ![p] = NoCaller]
  /\ UNCHANGED << endpoint, target, hres, fctx, open >>
  /\ UNCHANGED << limiterVars, classifierVars >>
  /\ UNCHANGED << timeout, pageTimeout, cookies >>
  /\ UNCHANGED processVars

\* The hook after its await of validateUrl: route.abort("blockedbyclient")
\* on a denial, route.continue() otherwise.  When the context of the page
\* was closed meanwhile there is no request left to continue or abort.
HookDone(p) ==
  /\ caller[p].kind \in { "navigation", "sub" }
  /\ pc[p] = "done"
  /\ LET r == caller[p].of
         req == PageRequest(r, caller[p].kind, arg[p])
     IN  IF hpc[r] # "loading"
         THEN UNCHANGED << wire, aborted >>
         ELSE IF result[p].kind = "allowed"
         THEN wire' = wire \cup { req } /\ UNCHANGED aborted
         ELSE aborted' = aborted \cup { req } /\ UNCHANGED wire
  /\ Release(p)
  /\ caller' = [caller EXCEPT ![p] = NoCaller]
  /\ UNCHANGED << hpc, endpoint, target, hres, fctx, open >>
  /\ UNCHANGED << limiterVars, classifierVars >>
  /\ UNCHANGED << timeout, pageTimeout, cookies >>
  /\ UNCHANGED processVars

\* A fetchPage without the finally: what throws leaves the context open.
LoadDoneNoFinally(r, ok) ==
  /\ hpc[r] = "loading"
  /\ ok => NavigationSent(r)
  /\ IF ok
     THEN hpc' = [hpc EXCEPT ![r] = "closing"] /\ UNCHANGED hres
     ELSE /\ hpc' = [hpc EXCEPT ![r] = "answered"]
          /\ hres' = [hres EXCEPT ![r] = AnswerOf(500, "error.message")]
  /\ UNCHANGED << endpoint, target, caller, fctx, open, wire, aborted >>
  /\ RouteFrame
  /\ UNCHANGED << timeout, pageTimeout, cookies >>
  /\ UNCHANGED processVars

\* A page.goto that resolves though its navigation was aborted.
LoadDoneThoughAborted(r, ok) ==
  /\ hpc[r] = "loading"
  /\ ok => NavigationAsked(r)
  /\ hpc' = [hpc EXCEPT ![r] = IF ok THEN "closing" ELSE "failing"]
  /\ UNCHANGED << endpoint, target, hres, caller, fctx, open, wire, aborted >>
  /\ RouteFrame
  /\ UNCHANGED << timeout, pageTimeout, cookies >>
  /\ UNCHANGED processVars

\* page.goto, waitForLoadState and page.content are over: the page is read,
\* which takes a navigation that was sent, or page.goto has thrown (a
\* navigation error, a timeout, a navigation the hook aborted).  Either way
\* the finally block runs.
LoadDone(r, ok) ==
  /\ hpc[r] = "loading"
  /\ ok => NavigationSent(r)
  /\ hpc' = [hpc EXCEPT ![r] = IF ok THEN "closing" ELSE "failing"]
  /\ UNCHANGED << endpoint, target, hres, caller, fctx, open, wire, aborted >>
  /\ RouteFrame
  /\ UNCHANGED << timeout, pageTimeout, cookies >>
  /\ UNCHANGED processVars

\* context.close() of the finally block has settled; fetchPage returns or
\* throws, and the handler answers: 200 when the extraction gives a result,
\* 422 (/content) or 500 (/process) when it does not, 500 when fetchPage
\* has thrown.
ContextClosed(r, extracted) ==
  /\ hpc[r] \in { "closing", "failing" }
  /\ open' = open \ { fctx[r] }
  /\ fctx' = [fctx EXCEPT ![r] = ""]
  /\ hres' = [hres EXCEPT ![r] =
                IF hpc[r] = "failing" THEN AnswerOf(500, "error.message")
                ELSE IF extracted THEN AnswerOf(200, "")
                ELSE IF endpoint[r] = "/content"
                THEN AnswerOf(422, "Could not extract readable content from this page")
                ELSE AnswerOf(500, "error.message")]
  /\ hpc' = [hpc EXCEPT ![r] = "answered"]
  /\ UNCHANGED << endpoint, target, caller, wire, aborted >>
  /\ RouteFrame
  /\ UNCHANGED << timeout, pageTimeout, cookies >>
  /\ UNCHANGED processVars

\* The response is sent, the 429 of the middleware or that of the handler;
\* the slot is free for the next request once the hooks of its page are over.
RouteReturn(r) ==
  /\ rpc[r] = "denied" \/ (rpc[r] = "next" /\ hpc[r] = "answered")
  /\ \A p \in Procs : caller[p].of # r
  /\ rpc' = [rpc EXCEPT ![r] = "idle"]
  /\ rip' = [rip EXCEPT ![r] = ""]
  /\ response' = [response EXCEPT ![r] = NoResponse]
  /\ hpc' = [hpc EXCEPT ![r] = "none"]
  /\ endpoint' = [endpoint EXCEPT ![r] = ""]
  /\ target' = [target EXCEPT ![r] = NoTarget]
  /\ hres' = [hres EXCEPT ![r] = NoAnswer]
  /\ wire' = { w \in wire : w.of # r }
  /\ aborted' = { w \in aborted : w.of # r }
  /\ UNCHANGED << clock, rateLimitStore, admissions, hinted, authVars, caller, fctx, open >>
  /\ UNCHANGED << guardVars, classifierVars >>
  /\ timeout' = [timeout EXCEPT ![r] = NoTimeout]
  /\ pageTimeout' = [pageTimeout EXCEPT ![r] = 0]
  /\ cookies' = [cookies EXCEPT ![r] = {}]
  /\ UNCHANGED processVars

RouteInit ==
  /\ hpc = [r \in Reqs |-> "none"]
  /\ endpoint = [r \in Reqs |-> ""]
  /\ target = [r \in Reqs |-> NoTarget]
  /\ hres = [r \in Reqs |-> NoAnswer]
  /\ caller = [p \in Procs |-> NoCaller]
  /\ fctx = [r \in Reqs |-> ""]
  /\ open = {}
  /\ wire = {}
  /\ aborted = {}
  /\ timeout = [r \in Reqs |-> NoTimeout]
  /\ pageTimeout = [r \in Reqs |-> 0]
  /\ cookies = [r \in Reqs |-> {}]

\* The file at CONSENT_COOKIES_PATH: what readFile gives (its content or
\* the code of its error), whether JSON.parse takes the content, whether
\* consentConfigSchema takes the value, and the patterns it holds then.
ConfigFile(read, json, schema, patterns) ==
  [read |-> read, json |-> json, schema |-> schema, patterns |-> patterns]

Missing == ConfigFile("ENOENT", FALSE, FALSE, {})

SitePatterns == { [match |-> { "a.test" }, cookies |-> { "consent" }] }

ConfigFiles ==
  { Missing,
    ConfigFile("EACCES", FALSE, FALSE, {}),
    ConfigFile("ok", FALSE, FALSE, {}),
    ConfigFile("ok", TRUE, FALSE, {}),
    ConfigFile("ok", TRUE, TRUE, {}),
    ConfigFile("ok", TRUE, TRUE, SitePatterns) }

\* A loadConsentCookies that takes every failure for a missing file.
loadConsentCookiesFailOpen(file, config) ==
  IF file.read = "ok" /\ file.json /\ file.schema
  THEN [threw |-> FALSE, config |-> Config(file.patterns)]
  ELSE [threw |-> FALSE, config |-> Config({})]

\* loadConsentCookies(): the configuration afterwards, and whether it threw.
loadConsentCookies(file, config) ==
  IF file.read = "ENOENT" THEN [threw |-> FALSE, config |-> Config({})]
  ELSE IF file.read # "ok" THEN [threw |-> TRUE, config |-> config]
  ELSE IF ~file.json THEN [threw |-> TRUE, config |-> config]
  ELSE IF ~file.schema THEN [threw |-> TRUE, config |-> config]
  ELSE [threw |-> FALSE, config |-> Config(file.patterns)]

\* The module-level state of consent.ts and index.ts when the server starts
\* to serve, with FETCH_TIMEOUT_MS parsed from the value ms of the
\* environment, without a file of consent cookies, and with the browser b
\* that connectBrowser() gave to main(): "connected", or "none" when it
\* threw.
MAX_RETRIES == 3
RETRY_DELAY_MS == 2000

\* What chromium.connectOverCDP(BROWSER_WEB_URL, {timeout: 5000}) settles
\* with: a browser, or an error with one of these messages.
CdpErrors == { "ECONNREFUSED", "Timeout 5000ms exceeded", "socket hang up", "404" }
CdpOutcomes == { "connected" } \cup CdpErrors

ConnOff ==
  [pc |-> "off", attempt |-> 0, lastError |-> "", waited |-> 0, tried |-> <<>>,
   cause |-> ""]

\* The for statement of connectBrowser after its body: attempt++ and the test.
LoopNext(c) ==
  IF c.attempt + 1 <= MAX_RETRIES
  THEN [c EXCEPT !.attempt = c.attempt + 1, !.pc = "attempt"]
  ELSE [c EXCEPT !.attempt = c.attempt + 1, !.pc = "thrown", !.cause = c.lastError]

\* A catch block that waits after every failure.
CaughtWaitsAlways(c, msg) ==
  [c EXCEPT !.lastError = msg, !.tried = Append(c.tried, msg), !.pc = "delay"]

\* The catch block of connectBrowser for an error with the message msg.
Caught(c, msg) ==
  LET c1 == [c EXCEPT !.lastError = msg, !.tried = Append(c.tried, msg)]
  IN  IF c.attempt < MAX_RETRIES THEN [c1 EXCEPT !.pc = "delay"] ELSE LoopNext(c1)

\* connectBrowser() is called.
ConnectBrowserCall ==
  /\ conn.pc = "off"
  /\ conn' = [ConnOff EXCEPT !.pc = "attempt", !.attempt = 1]
  /\ UNCHANGED << configVars, adBlocker, adBlockerLoading, browser, browserConnecting, link, reported >>
  /\ UNCHANGED << guardVars, limiterVars, classifierVars, routeVars >>

\* The connectOverCDP of the current attempt settles.
AttemptSettles(outcome) ==
  /\ conn.pc = "attempt"
  /\ conn' = IF outcome = "connected"
             THEN [conn EXCEPT !.pc = "returned", !.tried = Append(conn.tried, outcome)]
             ELSE Caught(conn, outcome)
  /\ UNCHANGED << configVars, adBlocker, adBlockerLoading, browser, browserConnecting, link, reported >>
  /\ UNCHANGED << guardVars, limiterVars, classifierVars, routeVars >>

\* The setTimeout of RETRY_DELAY_MS fires.
DelayElapsed ==
  /\ conn.pc = "delay"
  /\ conn' = LoopNext([conn EXCEPT !.waited = conn.waited + RETRY_DELAY_MS])
  /\ UNCHANGED << configVars, adBlocker, adBlockerLoading, browser, browserConnecting, link, reported >>
  /\ UNCHANGED << guardVars, limiterVars, classifierVars, routeVars >>

\* The caller has the browser or the error of connectBrowser.
ConnectTaken ==
  /\ conn.pc \in { "returned", "thrown" }
  /\ conn' = ConnOff
  /\ UNCHANGED << configVars, adBlocker, adBlockerLoading, browser, browserConnecting, link, reported >>
  /\ UNCHANGED << guardVars, limiterVars, classifierVars, routeVars >>

ConnectNext ==
  \/ ConnectBrowserCall
  \/ \E o \in CdpOutcomes : AttemptSettles(o)
  \/ DelayElapsed
  \/ ConnectTaken

ProcessStart(ms, b) ==
  /\ fetchTimeoutMs = ms
  /\ configFile = Missing
  /\ consentConfig = loadConsentCookies(Missing, Unset).config
  /\ phase = "listening"
  /\ adBlocker = "none"
  /\ adBlockerLoading = FALSE
  /\ browser = b
  /\ browserConnecting = FALSE
  /\ link = [lazy |-> 0, started |-> 0, made |-> IF b = "none" THEN 0 ELSE 1, ready |-> 0]
  /\ conn = ConnOff
  /\ reported = NoReport

\* parseInt(process.env.FETCH_TIMEOUT_MS || "30000", 10) with the variable unset
FETCH_TIMEOUT_MS == 30000

ProcessInit == ProcessStart(FETCH_TIMEOUT_MS, "connected")

RouteNext ==
  \/ \E r \in Reqs, a \in RouteAddresses : RateLimiterCall(r, a)
  \/ \E body \in RouteBodies : HandlerBody("r1", "/process", body, NoTimeout)
  \/ \E body \in RouteBodies : HandlerBody("r2", "/content", body, NoTimeout)
  \/ \E p \in Procs, o4 \in AllOutcomes4, o6 \in AllOutcomes6 : ResolveDone(p, o4, o6)
  \/ \E r \in Reqs : HandlerDecide(r)
  \/ \E r \in Reqs, ok \in BOOLEAN : NewContext(r, ok)
  \/ \E r \in Reqs, ok \in BOOLEAN : Setup(r, ok)
  \/ \E r \in Reqs, ok \in BOOLEAN : BlockerLoaded(r, ok)
  \/ \E r \in Reqs : BlockerWaited(r)
  \/ \E r \in Reqs, c \in RouteCandidates : HookCall(r, "navigation", c)
  \/ \E r \in Reqs, c \in SubCandidates : HookCall(r, "sub", c)
  \/ \E p \in Procs : HookDone(p)
  \/ \E r \in Reqs, ok \in BOOLEAN : LoadDone(r, ok)
  \/ \E r \in Reqs, extracted \in BOOLEAN : ContextClosed(r, extracted)
  \/ \E r \in Reqs : RouteReturn(r)

\* The timeout fields of the bodies and the values of FETCH_TIMEOUT_MS in
\* the scenarios on the timeout of the fetch.
TimeoutFields ==
  { NoTimeout, Millis(MinRequestTimeout - 1), Millis(MinRequestTimeout),
    Millis(MaxRequestTimeout), Millis(MaxRequestTimeout + 1),
    Fraction(1500), Text(5000) }

FetchTimeoutEnv == { FETCH_TIMEOUT_MS, 5000, 300000 }

TimeoutBodies == { Candidate("https", Name("a.test")) }

TimeoutStart ==
  /\ ClassifierOff /\ GuardInit /\ LimiterInit /\ RouteInit
  /\ \E ms \in FetchTimeoutEnv : ProcessStart(ms, "connected")

TimeoutNext ==
  \/ \E a \in RouteAddresses : RateLimiterCall("r1", a)
  \/ \E path \in { "/process", "/content" }, body \in TimeoutBodies, t \in TimeoutFields :
       HandlerBody("r1", path, body, t)
  \/ \E p \in Procs, o4 \in AllOutcomes4, o6 \in AllOutcomes6 : ResolveDone(p, o4, o6)
  \/ HandlerDecide("r1")
  \/ \E ok \in BOOLEAN : NewContext("r1", ok)
  \/ \E ok \in BOOLEAN : Setup("r1", ok)
  \/ \E ok \in BOOLEAN : BlockerLoaded("r1", ok)
  \/ \E c \in TimeoutBodies : HookCall("r1", "navigation", c)
  \/ \E p \in Procs : HookDone(p)
  \/ \E ok \in BOOLEAN : LoadDone("r1", ok)
  \/ \E extracted \in BOOLEAN : ContextClosed("r1", extracted)
  \/ RouteReturn("r1")

\* The server serves without a browser, connectBrowser() having thrown in
\* main().
LazyStart ==
  /\ ClassifierOff /\ GuardInit /\ LimiterInit /\ RouteInit
  /\ ProcessStart(FETCH_TIMEOUT_MS, "none")

LazyNext ==
  \/ \E r \in Reqs, a \in RouteAddresses : RateLimiterCall(r, a)
  \/ \E body \in TimeoutBodies : HandlerBody("r1", "/process", body, NoTimeout)
  \/ \E body \in TimeoutBodies : HandlerBody("r2", "/content", body, NoTimeout)
  \/ \E p \in Procs, o4 \in AllOutcomes4, o6 \in AllOutcomes6 : ResolveDone(p, o4, o6)
  \/ \E r \in Reqs : HandlerDecide(r)
  \/ \E ok \in BOOLEAN : ConnectSettles(ok)
  \/ ReadyCall
  \/ \E r \in Reqs, ok \in BOOLEAN : NewContext(r, ok)
  \/ \E r \in Reqs, ok \in BOOLEAN : Setup(r, ok)
  \/ \E r \in Reqs, ok \in BOOLEAN : BlockerLoaded(r, ok)
  \/ \E r \in Reqs, c \in TimeoutBodies : HookCall(r, "navigation", c)
  \/ \E p \in Procs : HookDone(p)
  \/ \E r \in Reqs, ok \in BOOLEAN : LoadDone(r, ok)
  \/ \E r \in Reqs, extracted \in BOOLEAN : ContextClosed(r, extracted)
  \/ \E r \in Reqs : RouteReturn(r)

\* The modules are loaded and main() is called, with one of ConfigFiles at
\* CONSENT_COOKIES_PATH.
ModulesLoaded ==
  /\ ClassifierOff /\ GuardInit /\ LimiterInit /\ RouteInit
  /\ fetchTimeoutMs = FETCH_TIMEOUT_MS
  /\ configFile \in ConfigFiles
  /\ consentConfig = Unset
  /\ phase = "main"
  /\ adBlocker = "none"
  /\ adBlockerLoading = FALSE
  /\ browser = "none"
  /\ browserConnecting = FALSE
  /\ link = [lazy |-> 0, started |-> 0, made |-> 0, ready |-> 0]
  /\ conn = ConnOff
  /\ reported = NoReport

\* main(): loadConsentCookies() has settled; main goes on to connect the
\* browser, or it rejects and the process exits.
MainLoaded ==
  /\ phase = "main"
  /\ LET out == loadConsentCookies(configFile, consentConfig)
     IN  /\ consentConfig' = out.config
         /\ phase' = IF out.threw THEN "exited" ELSE "connecting"
  /\ UNCHANGED << conn, reported, fetchTimeoutMs, configFile, adBlocker, adBlockerLoading, browser,
                  browserConnecting, link >>
  /\ UNCHANGED << guardVars, limiterVars, classifierVars, routeVars >>

\* main(): connectBrowser() has settled, with a browser or with its error,
\* which is logged; serve is called.
MainConnected(ok) ==
  /\ phase = "connecting"
  /\ browser' = IF ok THEN "connected" ELSE browser
  /\ link' = [link EXCEPT !.made = IF ok THEN link.made + 1 ELSE link.made]
  /\ phase' = "listening"
  /\ UNCHANGED << conn, reported, fetchTimeoutMs, configFile, consentConfig, adBlocker, adBlockerLoading,
                  browserConnecting >>
  /\ UNCHANGED << guardVars, limiterVars, classifierVars, routeVars >>

\* The start of the process and then requests to /process, one at a time.
StartupNext ==
  \/ MainLoaded
  \/ \E ok \in BOOLEAN : MainConnected(ok)
  \/ \E a \in RouteAddresses : phase = "listening" /\ RateLimiterCall("r1", a)
  \/ \E body \in RouteCandidates : HandlerBody("r1", "/process", body, NoTimeout)
  \/ \E p \in Procs, o4 \in AllOutcomes4, o6 \in AllOutcomes6 : ResolveDone(p, o4, o6)
  \/ HandlerDecide("r1")
  \/ \E ok \in BOOLEAN : ConnectSettles(ok)
  \/ ReadyCall
  \/ \E ok \in BOOLEAN : NewContext("r1", ok)
  \/ \E ok \in BOOLEAN : Setup("r1", ok)
  \/ \E ok \in BOOLEAN : BlockerLoaded("r1", ok)
  \/ \E c \in RouteCandidates : HookCall("r1", "navigation", c)
  \/ \E p \in Procs : HookDone(p)
  \/ \E ok \in BOOLEAN : LoadDone("r1", ok)
  \/ \E extracted \in BOOLEAN : ContextClosed("r1", extracted)
  \/ RouteReturn("r1")

vars == << guardVars, limiterVars, classifierVars, routeVars, processVars >>

\* The classifier's set comes first: GuardInit classifies the texts of the model.
Init == ClassifierOff /\ GuardInit /\ LimiterInit /\ RouteInit /\ ProcessInit
Next == GuardNext
Spec == Init /\ [][Next]_vars

\* The cache scenarios: two validations over three names, and clearDnsCache.
SpecCache == Init /\ [][CacheNext]_vars

\* The rate limiter scenarios: two requests in the middleware, of one
\* identity or of two, and clearRateLimitStore.
SpecLimiter == Init /\ [][LimiterNext]_vars

\* The store scenarios: one request at a time, of three identities for a
\* store of two, and clearRateLimitStore.
SpecStore == Init /\ [][StoreNext]_vars

\* The scenarios on the retry hint: requests of two identities at times
\* that are no whole seconds apart.
SpecHint == Init /\ [][HintNext]_vars

\* The requests to /process and /content: one to each at a time, from one
\* remote address.
SpecRoutes == Init /\ [][RouteNext]_vars

\* One request at a time to /process or /content, with the timeout fields
\* of TimeoutFields, in a process with one of the FETCH_TIMEOUT_MS values of
\* FetchTimeoutEnv.
SpecTimeout == TimeoutStart /\ [][TimeoutNext]_vars

\* Requests to a server that started without a browser.
SpecLazy == LazyStart /\ [][LazyNext]_vars

\* The process from the call of main().
SpecStartup == ModulesLoaded /\ [][StartupNext]_vars

\* One request at a time from two identities, at times that are no whole
\* seconds apart, for longer than a window.
SpecRetry == Init /\ [][RetryNext]_vars

\* Requests with and without credentials, with and without API_KEY.
AuthStart ==
  /\ ClassifierOff /\ GuardInit /\ RouteInit /\ ProcessInit
  /\ \E key \in ApiKeys : LimiterStart(key)

SpecAuth == AuthStart /\ [][AuthNext]_vars

\* connectOverCDP settles, by its timeout at the latest, and timers fire.
ConnectFairness ==
  /\ WF_vars(\E o \in CdpOutcomes : AttemptSettles(o))
  /\ WF_vars(DelayElapsed)

\* Calls of connectBrowser, one after the other.
SpecConnect == Init /\ [][ConnectNext]_vars /\ ConnectFairness

\* Validations and limited requests, one at a time, with calls of the clear
\* and stats functions between their steps.
SpecMaintenance == Init /\ [][MaintenanceNext]_vars

\* The scenarios on the order of the checks of validateUrl.
SpecOrder == Init /\ [][OrderNext]_vars

\* Each lookup that is pending settles, the resolver rejecting it on its
\* timeout at the latest, and the event loop runs the continuation of a
\* resolution whose lookups have settled.
LookupFairness ==
  \A p \in Procs :
    /\ WF_vars(\E o \in AllOutcomes4 : Resolve4Settles(p, o))
    /\ WF_vars(\E o \in AllOutcomes6 : Resolve6Settles(p, o))
    /\ WF_vars(AllSettled(p))

\* The lookups of a resolution as steps of their own, each of them settling
\* in the end.
SpecLookups == Init /\ [][LookupNext]_vars /\ LookupFairness

\* The classifier scenarios: every text of Subjects.
ClassifierStart == ClassifierInit /\ GuardInit /\ LimiterInit /\ RouteInit /\ ProcessInit
SpecClassifier == ClassifierStart /\ [][ClassifierNext]_vars


(***************************************************************************)
(* Properties of validateUrl                                               *)
(***************************************************************************)
Done(p) == pc[p] = "done"

AnyForbidden(records) == \E i \in 1..Len(records) : isAddressForbidden(records[i])

\* The call went past the checks that need no lookup.
LookedUp(p) == Done(p) /\ CheckUrl(arg[p]) = NoResult

\* C1: for a hostname that is no IP literal, validateUrl allows only when
\* the address list it used (from the cache or from its own resolution) is
\* non-empty and free of forbidden addresses, and it denies as soon as one
\* address of that list is forbidden, wherever it stands in the list.
C1_AnyForbiddenWins ==
  \A p \in Procs :
    LookedUp(p) =>
      /\ result[p].kind = "allowed" => (Len(used[p]) > 0 /\ ~AnyForbidden(used[p]))
      /\ AnyForbidden(used[p]) => result[p].kind = "denied"

\* C1 witness: a list of several addresses whose first is public and a
\* later one forbidden was used, and the call was denied.
C1_Witness ==
  \E p \in Procs :
    /\ LookedUp(p)
    /\ Len(used[p]) >= 2
    /\ ~isAddressForbidden(used[p][1])
    /\ AnyForbidden(used[p])
    /\ result[p].kind = "denied"

\* A lookup that settled without an address: an error, a timeout, no record.
NoAddress(q) == q.st = "rejected" \/ (q.st = "fulfilled" /\ Len(q.value) = 0)

ResolutionFailed(p) == stats[p].dns = 1 /\ NoAddress(q4[p]) /\ NoAddress(q6[p])

\* C5: every validateUrl call that has completed returned a result, Allowed
\* or Denied with a reason, and never a rejection; and a call whose
\* resolution failed (both lookups erred, timed out or came back empty) was
\* denied.
C5_NeverThrowsFailsClosed ==
  \A p \in Procs :
    Done(p) =>
      /\ result[p].kind \in { "allowed", "denied" }
      /\ result[p].kind = "denied" => result[p].msg # ""
      /\ ResolutionFailed(p) => result[p].kind = "denied"

\* C5 witness: a call whose A lookup came back empty and whose AAAA lookup
\* erred has returned a denial.
C5_Witness ==
  \E p \in Procs :
    /\ Done(p)
    /\ stats[p].dns = 1
    /\ q4[p].st = "fulfilled" /\ Len(q4[p].value) = 0
    /\ q6[p].st = "rejected"
    /\ result[p].kind = "denied"
    /\ result[p].msg = "Failed to resolve hostname"

\* The host written in an http(s) URL text is an IP literal: a dotted quad
\* or a bracketed IPv6 address.
LiteralOf(c) == IF c.host.k = "br" THEN Tok(c.host.name, c.host.parts, "") ELSE c.host

HasLiteralHost(c) ==
  /\ c.scheme \in { "http", "https" }
  /\ c.host.k \in { "v4", "br" }
  /\ IpaddrIsValid(LiteralOf(c))

\* C6: for an http(s) URL whose host is an IP literal, IPv4 or IPv6,
\* validateUrl decides by classifying the literal alone (Denied when it is
\* forbidden, Allowed otherwise) without a DNS resolution and without
\* reading or writing the cache.
C6_LiteralFastPath ==
  \A p \in Procs :
    (Done(p) /\ HasLiteralHost(arg[p])) =>
      /\ result[p].kind =
           (IF isAddressForbidden(LiteralOf(arg[p])) THEN "denied" ELSE "allowed")
      /\ stats[p] = NoStats


(***************************************************************************)
(* Properties of the DNS cache                                             *)
(***************************************************************************)
\* Allowed both, or Denied both with the same reason.
SameOutcome(r1, r2) ==
  /\ r1.kind = r2.kind
  /\ r1.msg = r2.msg /\ r1.host = r2.host /\ r1.addr = r2.addr /\ r1.err = r2.err

\* C9 as stated: a validation of h that follows, within the ttl, validations
\* of h that ended with a successful resolution (no clear and no capacity
\* eviction of h since) performs no DNS lookup and returns the outcome of
\* each of them.
C9_SameAsEveryEarlier ==
  \A p \in Procs :
    (Done(p) /\ Len(expected[p]) > 0) =>
      /\ stats[p].dns = 0
      /\ \A i \in 1..Len(expected[p]) : SameOutcome(result[p], expected[p][i].result)

\* C9 amended: such a validation performs no DNS lookup and returns the
\* outcome of the validation whose resolution was stored last, that is of
\* an earlier validation after which no other resolution of h was stored.
C9_SameAsLastStored ==
  \A p \in Procs :
    (Done(p) /\ Len(expected[p]) > 0) =>
      /\ stats[p].dns = 0
      /\ SameOutcome(result[p], expected[p][Len(expected[p])].result)

\* C9 witness: a validation has been answered from the cache, one ttl after
\* the resolution was stored, with the denial the storing validation got.
C9_Witness ==
  \E p \in Procs :
    /\ Done(p)
    /\ Len(expected[p]) = 1
    /\ now - expected[p][1].at = DNS_CACHE_TTL_MS
    /\ stats[p].dns = 0
    /\ result[p].kind = "denied"
    /\ result[p] = expected[p][1].result

EntryOf(cache, key) == cache[CacheIndex(cache, key)]

\* The addresses a settled resolution returns: those of A, then those of AAAA.
Answer(o4, o6) ==
  (IF o4.st = "fulfilled" THEN o4.value ELSE <<>>)
  \o (IF o6.st = "fulfilled" THEN o6.value ELSE <<>>)

\* A call that found an entry of its hostname older than the ttl resolves.
StaleResolves ==
  \A p \in Procs : (pc[p] # "idle" /\ sawStale[p]) => stats[p].dns = 1

\* A resolution that returns addresses leaves exactly these addresses as
\* the entry of the hostname, with the time of the store as its start.
StoreReplaces ==
  \A p \in Procs :
    (pc[p] = "resolving" /\ pc'[p] = "done" /\ Len(Answer(q4'[p], q6'[p])) > 0) =>
      LET hostname == HostOf(arg[p])
      IN  /\ hostname \in CacheKeys(dnsCache')
          /\ EntryOf(dnsCache', hostname).value = Answer(q4'[p], q6'[p])
          /\ EntryOf(dnsCache', hostname).start = now

\* The start of an entry changes only when a resolution of its hostname is stored.
StartOnlyByStore ==
  \A key \in CacheKeys(dnsCache) \cap CacheKeys(dnsCache') :
    EntryOf(dnsCache', key).start # EntryOf(dnsCache, key).start =>
      \E p \in Procs : pc[p] = "resolving" /\ pc'[p] = "done" /\ HostOf(arg[p]) = key

\* C10: the validation of h that finds the entry of h older than the ttl
\* performs a fresh resolution; a successful resolution replaces the entry
\* by the newly resolved list (no merge); the ttl runs from the store, and
\* a cache hit does not move it.
C10_ExpiryAndReplace ==
  /\ []StaleResolves
  /\ [][StoreReplaces /\ StartOnlyByStore]_vars

\* C10 witness: a call found a stale entry holding other addresses,
\* resolved and stored its own list, which is now the entry.
C10_Witness ==
  \E p \in Procs :
    /\ Done(p)
    /\ sawStale[p]
    /\ stats[p].sets = 1
    /\ used[p] = << PrivateV4 >>
    /\ HostOf(arg[p]) \in CacheKeys(dnsCache)
    /\ EntryOf(dnsCache, HostOf(arg[p])).value = used[p]


(***************************************************************************)
(* Properties of the rate limiter                                          *)
(***************************************************************************)
\* The request r enters the middleware in this step.
Enters(r) == rpc[r] = "idle" /\ rpc'[r] # "idle"

\* The admissions of the identity that lie in the window ending at t.
ActiveAdmissions(ip, t) ==
  SelectSeq(admissions[ip], LAMBDA x : x > t - RATE_LIMIT_WINDOW_MS)

AdmitsBelowLimitOnly ==
  \A r \in Reqs :
    Enters(r) =>
      IF Len(ActiveAdmissions(rip'[r], clock)) < RATE_LIMIT_REQUESTS
      THEN rpc'[r] = "next"
      ELSE /\ rpc'[r] = "denied"
           /\ response'[r].status = 429
           /\ response'[r].retryAfter > 0

\* C2: a request of an identity with fewer than RATE_LIMIT_REQUESTS
\* admissions in the window that ends at its clock value is admitted (so
\* the first N requests within a window are, and so is a request made once
\* the window has elapsed since N admissions); a request of an identity
\* with N admissions in that window is denied with a retry hint above 0.
C2_WindowedAdmission == [][AdmitsBelowLimitOnly]_vars

\* C2 witness: an identity was admitted N times within one window; a
\* further request within that window got the 429 response it still holds,
\* with a retry hint of half a window; and now, the window elapsed since
\* the N admissions, a request of the identity is admitted.
C2_Witness ==
  \E r, d \in Reqs :
    /\ rpc[r] = "next"
    /\ rpc[d] = "denied"
    /\ rip[d] = rip[r]
    /\ response[d].status = 429
    /\ response[d].retryAfter * 1000 = LimiterTickMs
    /\ LET ip == rip[r]
           before == SelectSeq(admissions[ip], LAMBDA x : x <= clock - RATE_LIMIT_WINDOW_MS)
       IN  /\ Len(before) = RATE_LIMIT_REQUESTS
           /\ \A i \in 1..Len(before) : before[i] = before[1]
           /\ Len(admissions[ip]) = RATE_LIMIT_REQUESTS + 1
           /\ admissions[ip][Len(admissions[ip])] = clock

\* C3: whatever requests of an identity are in the middleware together, the
\* admissions of the identity within a window never number more than
\* RATE_LIMIT_REQUESTS (admissions counted since the entry of the identity
\* was last dropped by a clear or by an eviction for other identities).
C3_NeverAboveLimit ==
  \A ip \in Identities : Len(ActiveAdmissions(ip, clock)) <= RATE_LIMIT_REQUESTS

\* C3 witness: two requests of one identity are in the middleware at the
\* same clock value with one slot left: one got it, the other was denied.
C3_Witness ==
  /\ rpc["r1"] = "next"
  /\ rpc["r2"] = "denied"
  /\ rip["r1"] = rip["r2"]
  /\ LET active == ActiveAdmissions(rip["r1"], clock)
     IN  /\ Len(active) = RATE_LIMIT_REQUESTS
         /\ active[Len(active)] = clock
         /\ response["r2"].status = 429
         /\ response["r2"].retryAfter
              = MathCeil(MathMin(active) + RATE_LIMIT_WINDOW_MS - clock, 1000)

\* The timestamp list stored for the identity.
StoredList(store, ip) ==
  IF ip \in CacheKeys(store) THEN store[CacheIndex(store, ip)].value ELSE <<>>

\* The request of identity a that enters in this step leaves the list of
\* every other identity, and the decision its next request gets, as they were.
LeavesOthersAlone(r) ==
  \A b \in Identities \ { rip'[r] } :
    /\ StoredList(rateLimitStore', b) = StoredList(rateLimitStore, b)
    /\ rateLimiter(rateLimitStore', b, clock).admitted
         = rateLimiter(rateLimitStore, b, clock).admitted

\* C4 as stated: no limiter call for an identity changes the stored list of
\* another identity or the decision of that identity's next call.
C4_NoCallAffectsOthers ==
  [][\A r \in Reqs : Enters(r) => LeavesOthersAlone(r)]_vars

\* C4 amended: a limiter call for an identity that the store tracks, or made
\* while the store holds fewer identities than its capacity, changes neither
\* the stored list of another identity nor the decision of its next call.
C4_TrackedCallLeavesOthers ==
  [][\A r \in Reqs :
       (/\ Enters(r)
        /\ \/ rip'[r] \in CacheKeys(rateLimitStore)
           \/ Len(rateLimitStore) < RateStoreMax)
       => LeavesOthersAlone(r)]_vars

\* C4 witness: an identity has exhausted its limit and is denied in a full
\* store, while another identity has a list and its next call is admitted.
C4_Witness ==
  \E r \in Reqs :
    /\ rpc[r] = "denied"
    /\ Len(rateLimitStore) = RateStoreMax
    /\ \E b \in Identities \ { rip[r] } :
         /\ Len(StoredList(rateLimitStore, b)) > 0
         /\ rateLimiter(rateLimitStore, b, clock).admitted

WritesMapped(t) ==
  /\ t.k \in { "v6", "v6t" }
  /\ \A i \in 1..5 : t.parts[i] = 0
  /\ t.parts[6] = 65535

\* The IPv4 text of the last 32 bits of a mapped text.
EmbeddedV4(t) ==
  IF t.k = "v6t" THEN V4(t.parts[7], t.parts[8], t.parts[9], t.parts[10])
  ELSE V4(t.parts[7] \div 256, t.parts[7] % 256, t.parts[8] \div 256, t.parts[8] % 256)

SetIsStatic ==
  /\ disallowedRanges = DISALLOWED_IP_RANGES
  /\ Cardinality(disallowedRanges) = 14

\* C8 as stated: a text that is no valid literal is forbidden, a valid
\* literal is forbidden exactly when its own range is in the set of 14
\* range names, and the set stays what it was.
C8_OwnRangeDecides ==
  /\ SetIsStatic
  /\ cpc # "given" =>
       IF ~IpaddrIsValid(subject) THEN verdict.plain = "forbidden"
       ELSE verdict.plain = "forbidden"
              <=> Range(IpaddrParse(subject)) \in DISALLOWED_IP_RANGES

\* C8 amended: a text that is no valid literal is forbidden, a valid literal
\* is forbidden exactly when its range, or for an IPv4-mapped IPv6 literal
\* the range of the IPv4 address it embeds, is in the set of 14 range
\* names, and the set stays what it was.
C8_FailsClosedByRange ==
  /\ SetIsStatic
  /\ cpc # "given" =>
       IF ~IpaddrIsValid(subject) THEN verdict.plain = "forbidden"
       ELSE verdict.plain = "forbidden"
              <=> (IF WritesMapped(subject)
                   THEN Range(IpaddrParse(EmbeddedV4(subject)))
                   ELSE Range(IpaddrParse(subject))) \in DISALLOWED_IP_RANGES

\* C8 witness: ::ffff:127.0.0.1, of range ipv4Mapped, was classified forbidden.
C8_Witness ==
  /\ cpc = "classified"
  /\ subject = MappedLoopbackV6
  /\ Range(IpaddrParse(subject)) = "ipv4Mapped"
  /\ verdict.plain = "forbidden"

(***************************************************************************)
(* Properties of the resolution and of the order of the checks             *)
(***************************************************************************)
\* The address lists a successful resolution of the hostname can return.
SuccessfulAnswers(hostname) ==
  { Answer(o4, o6) : o4 \in Resolve4Outcomes(hostname), o6 \in Resolve6Outcomes(hostname) }
    \ { <<>> }

EntriesAreAnswers ==
  \A i \in 1..Len(dnsCache) :
    /\ Len(dnsCache[i].value) > 0
    /\ dnsCache[i].value \in SuccessfulAnswers(dnsCache[i].key)

\* The resolution of the call ends in this step without an address.
FailsNow(p) ==
  /\ pc[p] = "resolving"
  /\ pc'[p] = "done"
  /\ NoAddress(q4'[p])
  /\ NoAddress(q6'[p])

\* C11: every entry of the DNS cache is a non-empty address list that a
\* resolution of its hostname returned, and a resolution that ends without
\* an address (errors, timeouts, empty answers) leaves the cache as it was,
\* so that the hostname still has no entry made by it.
C11_OnlySuccessesCached ==
  /\ []EntriesAreAnswers
  /\ [][\A p \in Procs : FailsNow(p) => dnsCache' = dnsCache]_vars

\* C11 witness: a resolution came back empty from both lookups, the call
\* was denied and its hostname has no entry, while another name has one.
C11_Witness ==
  \E p \in Procs :
    /\ Done(p)
    /\ stats[p].dns = 1
    /\ q4[p] = Fulfilled(<<>>)
    /\ q6[p] = Fulfilled(<<>>)
    /\ result[p].kind = "denied"
    /\ HostOf(arg[p]) \notin CacheKeys(dnsCache)
    /\ Len(dnsCache) > 0

\* The call has resolved: both of its lookups were issued and have settled.
Resolved(p) ==
  /\ Done(p)
  /\ stats[p].dns = 1
  /\ q4[p].st \in { "fulfilled", "rejected" }
  /\ q6[p].st \in { "fulfilled", "rejected" }

\* The messages of the lookups that erred, A first.
FailureMessages(o4, o6) ==
  (IF o4.st = "rejected" THEN << o4.err >> ELSE <<>>)
  \o (IF o6.st = "rejected" THEN << o6.err >> ELSE <<>>)

\* C12: a call that resolves issues one A and one AAAA lookup; the
\* resolution succeeds exactly when one of them returned an address, and
\* the call then decides over the A addresses followed by the AAAA
\* addresses; otherwise the call is denied for the failed resolution, with
\* the messages of the lookups that erred, A first (or, when none erred,
\* the message that no record was returned).
C12_EitherFamilySuffices ==
  \A p \in Procs :
    /\ stats[p].dns <= 1
    /\ (pc[p] = "resolving") => (q4[p] = Pending /\ q6[p] = Pending)
    /\ Resolved(p) =>
         IF ~(NoAddress(q4[p]) /\ NoAddress(q6[p]))
         THEN /\ stats[p].sets = 1
              /\ used[p] = Answer(q4[p], q6[p])
              /\ result[p] = CheckRecords(HostOf(arg[p]), used[p])
         ELSE /\ stats[p].sets = 0
              /\ result[p].kind = "denied"
              /\ result[p].msg = "Failed to resolve hostname"
              /\ result[p].err =
                   (IF FailureMessages(q4[p], q6[p]) # <<>>
                    THEN FailureMessages(q4[p], q6[p])
                    ELSE << "DNS lookup did not return any A or AAAA records" >>)

\* C12 witness: the A lookup timed out, the AAAA lookup returned a public
\* address, and the call was allowed over that address.
C12_Witness ==
  \E p \in Procs :
    /\ Resolved(p)
    /\ q4[p].st = "rejected"
    /\ q6[p] = Fulfilled(<< PublicV6 >>)
    /\ used[p] = << PublicV6 >>
    /\ result[p].kind = "allowed"


\* The check at which a URL text fails before any lookup, stated from the
\* text itself: 1 the parse, 2 the scheme, 3 the hostname, 0 none of them.
FailsAt(c) ==
  IF ~ParseUrl(c).ok THEN 1
  ELSE IF c.scheme \notin { "http", "https" } THEN 2
  ELSE IF ParseUrl(c).hostname = Name("") THEN 3
  ELSE 0

ReasonOfCheck(n) ==
  IF n = 1 THEN "Invalid URL"
  ELSE IF n = 2 THEN "Unsupported protocol for URL"
  ELSE "URL must include a hostname"

\* A call that has begun: its argument is the text it was called with.
Called(p) == pc[p] # "idle"

\* What holds of every call that has begun, by the check it fails first.
OrderHolds ==
  \A p \in Procs :
    Called(p) =>
      /\ FailsAt(arg[p]) # 0 =>
           /\ Done(p)
           /\ result[p].kind = "denied"
           /\ result[p].msg = ReasonOfCheck(FailsAt(arg[p]))
           /\ stats[p] = NoStats
      /\ (FailsAt(arg[p]) = 0 /\ IsIpLiteral(HostOf(arg[p]))) =>
           /\ Done(p)
           /\ stats[p] = NoStats
           /\ result[p] = (IF isAddressForbidden(HostOf(arg[p]))
                           THEN Denied("Refusing to access forbidden IP address",
                                       HostOf(arg[p]), NoTok, <<>>)
                           ELSE Allowed)
      /\ (FailsAt(arg[p]) = 0 /\ ~IsIpLiteral(HostOf(arg[p]))) =>
           /\ stats[p].gets = 1
           /\ stats[p].sets <= stats[p].dns
           /\ pc[p] = "resolving" => (stats[p].dns = 1 /\ stats[p].sets = 0)

\* The step of a call that returns before the cache lookup.
ReturnsEarly(p) ==
  /\ pc[p] = "idle" /\ pc'[p] = "done"
  /\ FailsAt(arg'[p]) # 0 \/ IsIpLiteral(HostOf(arg'[p]))

\* C13: validateUrl runs its checks in a fixed order (URL parse, scheme,
\* hostname presence, IP-literal classification, cache lookup, DNS
\* resolution, classification of the resolved addresses) and returns at the
\* first one that fails: a text failing the parse, the scheme or the hostname
\* check is denied with the reason of the first of the three it fails, having
\* read no cache entry, written none and started no lookup; an IP literal is
\* answered without cache or resolver; a resolution is made only after a
\* cache lookup that missed, a store only after a resolution, and a verdict
\* on resolved addresses only after the cache was read.
C13_ChecksInOrder ==
  /\ []OrderHolds
  /\ [][\A p \in Procs :
          ReturnsEarly(p) => UNCHANGED << dnsCache, live, q4, q6 >>]_vars

\* "mailto:user" fails the scheme check and has no hostname, "ftp://127.0.0.1/"
\* fails the scheme check and names a forbidden literal: both are denied
\* for their scheme, without any access to the cache or the resolver.
C13_Witness ==
  \E p \in Procs :
    /\ Done(p)
    /\ arg[p] = CandidateAt("mailto", Name(""), "user")
    /\ ParseUrl(arg[p]).ok /\ ParseUrl(arg[p]).hostname = Name("")
    /\ result[p].kind = "denied"
    /\ result[p].msg = "Unsupported protocol for URL"
    /\ stats[p] = NoStats


\* The text is written with the scheme http or https, an empty authority and
\* a path, as "http:///path".
WrittenWithoutHost(c) == c.scheme \in { "http", "https" } /\ c.host = Name("") /\ c.path # ""

Unparsable(c) == ~ParseUrl(c).ok

OtherScheme(c) == ParseUrl(c).ok /\ c.scheme \notin { "http", "https" }

\* C14 as stated: a text that does not parse, a URL of another scheme and a
\* URL written without a hostname (such as "http:///path") are each denied,
\* with the reasons of a malformed input, of an unsupported scheme and of a
\* missing hostname.
C14_ThreeCausesThreeReasons ==
  \A p \in Procs :
    Done(p) =>
      /\ Unparsable(arg[p]) =>
           (result[p].kind = "denied" /\ result[p].msg = "Invalid URL")
      /\ OtherScheme(arg[p]) =>
           (result[p].kind = "denied" /\ result[p].msg = "Unsupported protocol for URL")
      /\ (WrittenWithoutHost(arg[p]) /\ ~Unparsable(arg[p])) =>
           (result[p].kind = "denied" /\ result[p].msg = "URL must include a hostname")

\* C14: a text that does not parse (among them "http://") is denied as an
\* invalid URL and a parsed URL of a scheme other than http and https as of
\* an unsupported protocol, two different reasons; an http or https URL
\* written without a host and with a path parses with the first segment of
\* the path as its hostname and is validated as that host, through the cache
\* and the resolver: denied only for what the resolution of that name gives,
\* never for a missing hostname, which no http or https URL is denied for.
C14_DeniedByCause ==
  \A p \in Procs :
    Done(p) =>
      /\ Unparsable(arg[p]) =>
           (result[p].kind = "denied" /\ result[p].msg = "Invalid URL")
      /\ OtherScheme(arg[p]) =>
           (result[p].kind = "denied" /\ result[p].msg = "Unsupported protocol for URL")
      /\ result[p].msg # "URL must include a hostname"
      /\ WrittenWithoutHost(arg[p]) =>
           /\ HostOf(arg[p]) = Name(arg[p].path)
           /\ stats[p].gets = 1
           /\ result[p].kind \in { "allowed", "denied" }
           /\ result[p].kind = "denied" =>
                /\ result[p].host = Name(arg[p].path)
                /\ result[p].msg \in { "Failed to resolve hostname",
                                       "Refusing to access forbidden resolved address" }
           /\ result[p].kind = "allowed" => (Len(used[p]) > 0 /\ ~AnyForbidden(used[p]))

\* "http:///path" was validated as the host "path", whose lookups failed.
C14_Witness ==
  \E p \in Procs :
    /\ Done(p)
    /\ arg[p] = CandidateAt("http", Name(""), "path")
    /\ stats[p].dns = 1
    /\ q4[p].st = "rejected" /\ q6[p].st = "rejected"
    /\ result[p].kind = "denied"
    /\ result[p].msg = "Failed to resolve hostname"
    /\ result[p].host = Name("path")


(***************************************************************************)
(* Properties of what a limiter call stores and of its retry hint          *)
(***************************************************************************)
\* timestamps.filter((t) => t > windowStart) of the list stored for ip
Trimmed(store, ip, t) ==
  SelectSeq(StoredList(store, ip), LAMBDA x : x > t - RATE_LIMIT_WINDOW_MS)

InWindow(list, t) == \A i \in 1..Len(list) : list[i] > t - RATE_LIMIT_WINDOW_MS

\* The entry of the identity was written by the call made at t.
WrittenAt(store, ip, t) == ip \in CacheKeys(store) /\ EntryOf(store, ip).start = t

\* C19 as stated: every limiter call, a denied one included, writes the
\* trimmed list back to the store under the identity of the caller, so that
\* after a denied call the stored list holds no timestamp at or before
\* now - RATE_LIMIT_WINDOW_MS.
C19_EveryCallWritesBack ==
  [][\A r \in Reqs :
       Enters(r) =>
         /\ WrittenAt(rateLimitStore', rip'[r], clock)
         /\ StoredList(rateLimitStore', rip'[r])
              = (IF rpc'[r] = "denied"
                 THEN Trimmed(rateLimitStore, rip'[r], clock)
                 ELSE Append(Trimmed(rateLimitStore, rip'[r], clock), clock))
         /\ InWindow(StoredList(rateLimitStore', rip'[r]), clock)]_vars

\* C19: an admitted call writes the trimmed list with now appended under the
\* identity of the caller; a denied call writes nothing, the entry of the
\* identity keeping its list and its age, and still the stored list holds
\* no timestamp at or before now - RATE_LIMIT_WINDOW_MS after it: the list
\* it read needed no trimming.
C19_AdmittedCallsWrite ==
  [][\A r \in Reqs :
       Enters(r) =>
         IF rpc'[r] = "denied"
         THEN /\ rip'[r] \in CacheKeys(rateLimitStore) \cap CacheKeys(rateLimitStore')
              /\ EntryOf(rateLimitStore', rip'[r]) = EntryOf(rateLimitStore, rip'[r])
              /\ StoredList(rateLimitStore', rip'[r]) = Trimmed(rateLimitStore, rip'[r], clock)
              /\ InWindow(StoredList(rateLimitStore', rip'[r]), clock)
         ELSE /\ WrittenAt(rateLimitStore', rip'[r], clock)
              /\ StoredList(rateLimitStore', rip'[r])
                   = Append(Trimmed(rateLimitStore, rip'[r], clock), clock)
              /\ InWindow(StoredList(rateLimitStore', rip'[r]), clock)]_vars

\* A request is being answered 429 one tick after the admissions that fill
\* the limit: the entry of its identity still has the age of the last
\* admission.
C19_Witness ==
  \E r \in Reqs :
    /\ rpc[r] = "denied"
    /\ response[r].retryAfter = MathCeil(RATE_LIMIT_WINDOW_MS - LimiterTickMs, 1000)
    /\ rip[r] \in CacheKeys(rateLimitStore)
    /\ LET e == EntryOf(rateLimitStore, rip[r])
       IN  /\ Len(e.value) = RATE_LIMIT_REQUESTS
           /\ \A i \in 1..Len(e.value) : e.value[i] = clock - LimiterTickMs
           /\ e.start = clock - LimiterTickMs


\* The oldest admission of the identity that lies in the window ending at t.
OldestInWindow(ip, t) == ActiveAdmissions(ip, t)[1]

\* h is the least integer with h * 1000 >= ms.
IsCeilOfSeconds(h, ms) == h * 1000 >= ms /\ (h - 1) * 1000 < ms

\* C20: the retry hint of a call denied at time now is
\* ceil((tmin + RATE_LIMIT_WINDOW_MS - now) / 1000), tmin being the oldest
\* timestamp of the identity still inside the window, an integer of at least
\* 1 and at most ceil(RATE_LIMIT_WINDOW_MS / 1000).
C20_RetryHint ==
  [][\A r \in Reqs :
       (Enters(r) /\ rpc'[r] = "denied") =>
         /\ response'[r].status = 429
         /\ Len(ActiveAdmissions(rip'[r], clock)) >= 1
         /\ IsCeilOfSeconds(response'[r].retryAfter,
                            OldestInWindow(rip'[r], clock) + RATE_LIMIT_WINDOW_MS - clock)
         /\ response'[r].retryAfter \in Nat
         /\ response'[r].retryAfter >= 1
         /\ \E top \in 0..(RATE_LIMIT_WINDOW_MS \div 1000 + 1) :
              /\ IsCeilOfSeconds(top, RATE_LIMIT_WINDOW_MS)
              /\ response'[r].retryAfter <= top]_vars

\* A request is being answered 429 with a hint that was rounded up: the
\* time left in the window of the oldest admission is no whole number of
\* seconds.
C20_Witness ==
  \E r \in Reqs :
    /\ rpc[r] = "denied"
    /\ response[r].status = 429
    /\ Len(ActiveAdmissions(rip[r], clock)) = RATE_LIMIT_REQUESTS
    /\ (OldestInWindow(rip[r], clock) + RATE_LIMIT_WINDOW_MS - clock) % 1000 # 0
    /\ response[r].retryAfter * 1000
         > OldestInWindow(rip[r], clock) + RATE_LIMIT_WINDOW_MS - clock
    /\ (response[r].retryAfter - 1) * 1000
         < OldestInWindow(rip[r], clock) + RATE_LIMIT_WINDOW_MS - clock


(***************************************************************************)
(* Properties of the route handlers and of fetchPage                       *)
(***************************************************************************)
\* fetchPage is called in this step for the request.
FetchStarts(r) == hpc[r] # "newContext" /\ hpc'[r] = "newContext"

\* The request has a validateUrl call running or returned, made by its
\* route handler or by the hook of its page.
HasCall(r) == \E p \in Procs : caller[p].of = r

GateHolds ==
  \A r \in Reqs :
    /\ rpc[r] = "denied" =>
         /\ response[r].status = 429
         /\ hpc[r] = "none" /\ hres[r] = NoAnswer
         /\ ~HasCall(r) /\ ~InFetch(r) /\ fctx[r] = ""
    /\ (hpc[r] # "none" \/ HasCall(r)) => rpc[r] = "next"
    /\ (hres[r].status = 400 /\ hres[r].error = "urlValidation.reason") =>
         /\ hres[r].reason.kind = "denied"
         /\ hres[r].reason.msg # ""
         /\ ~InFetch(r) /\ fctx[r] = ""
         /\ \A w \in wire \cup aborted : w.of # r

\* C15: on /process and /content fetchPage is called only for a request
\* the rate limiter admitted and whose URL validateUrl then accepted; a
\* request the limiter denied is answered 429 and has no validateUrl call,
\* no lookup and no fetch; a request whose URL validateUrl denied is
\* answered 400 with the reason of the denial and has no fetch.
C15_GateBeforeFetch ==
  /\ []GateHolds
  /\ [][\A r \in Reqs :
          /\ FetchStarts(r) =>
               /\ rpc[r] = "next"
               /\ hpc[r] = "validating"
               /\ pc[RouteCallOf(r)] = "done"
               /\ result[RouteCallOf(r)] = Allowed
               /\ arg[RouteCallOf(r)] = target[r]
          /\ (rpc[r] = "idle" /\ rpc'[r] = "denied") =>
               UNCHANGED << guardVars, routeVars >>
          /\ (hpc[r] = "validating" /\ hpc'[r] = "answered" /\ hres'[r].status = 400) =>
               /\ result[RouteCallOf(r)].kind = "denied"
               /\ hres'[r].reason = result[RouteCallOf(r)]
               /\ UNCHANGED << fctx, open, wire, aborted >>]_vars

\* One request was denied by the limiter and is answered 429, the other was
\* admitted, its URL denied by validateUrl, and is answered 400 with the
\* reason; neither has a fetch.
C15_Witness ==
  \E r, d \in Reqs :
    /\ rpc[d] = "denied" /\ response[d].status = 429 /\ hpc[d] = "none"
    /\ rpc[r] = "next" /\ hpc[r] = "answered"
    /\ hres[r].status = 400
    /\ hres[r].reason.kind = "denied"
    /\ hres[r].reason.msg = "Refusing to access forbidden resolved address"
    /\ open = {}


\* The request is continued in this step after validateUrl accepted its URL:
\* the step is the continuation of a hook whose validateUrl call, made for
\* this request, has returned Allowed.
ContinuedAfterAccept(w) ==
  \E p \in Procs :
    /\ caller[p] = Caller(w.of, w.kind)
    /\ arg[p] = w.url
    /\ pc[p] = "done"
    /\ result[p] = Allowed
    /\ caller'[p] = NoCaller

\* C16 as stated: every request of a page, the navigation and every
\* sub-resource, is passed to validateUrl and continued only after
\* validateUrl has accepted it.
C16_EveryRequestValidated ==
  [][\A w \in wire' \ wire : ContinuedAfterAccept(w)]_vars

\* C16: every http or https request of a page that the hook is called
\* with, the navigation and every sub-resource, is passed to validateUrl
\* and continued only after validateUrl has accepted it; a request of
\* another scheme is continued by the hook without any call of validateUrl.
C16_HttpRequestsValidated ==
  [][\A w \in wire' \ wire :
       IF StartsWithHttp(w.url)
       THEN ContinuedAfterAccept(w)
       ELSE UNCHANGED << guardVars, caller >>]_vars

\* A page whose navigation and https sub-resource were continued after
\* validateUrl accepted them, whose data: request was continued as it came
\* and whose request to the loopback address was aborted.
C16_Witness ==
  \E r \in Reqs :
    /\ hpc[r] = "loading"
    /\ PageRequest(r, "navigation", target[r]) \in wire
    /\ PageRequest(r, "sub", CandidateAt("https", Name("a.test"), "style.css")) \in wire
    /\ PageRequest(r, "sub", CandidateAt("data", Name(""), "image/png")) \in wire
    /\ PageRequest(r, "sub", CandidateAt("http", V4(127, 0, 0, 1), "admin")) \in aborted

\* What the hook did to the requests of the other pages and to the other
\* requests of this page stays as it was.
OnlyAborts(w) ==
  /\ aborted' = aborted \cup { w }
  /\ wire' = wire
  /\ hpc' = hpc /\ hres' = hres /\ fctx' = fctx /\ open' = open
  /\ \A q \in Procs :
       caller[q] # Caller(w.of, w.kind) \/ arg[q] # w.url =>
         /\ caller'[q] = caller[q] /\ pc'[q] = pc[q]
         /\ result'[q] = result[q] /\ arg'[q] = arg[q]

\* The hook is at a denial of validateUrl for a sub-resource of a page that
\* is loading.
DeniesSub(p) ==
  /\ caller[p].kind = "sub"
  /\ pc[p] = "done" /\ pc'[p] = "idle"
  /\ result[p].kind = "denied"
  /\ hpc[caller[p].of] = "loading"

\* C17: when validateUrl denies a sub-request of a page, exactly that
\* request is aborted and the hook does not throw: the page goes on
\* loading, its other requests are validated and continued or aborted on
\* their own, and fetchPage does not fail for it.
C17_DenialAbortsOneRequest ==
  /\ [](\A p \in Procs : result[p].kind # "rejected")
  /\ [][\A p \in Procs :
          DeniesSub(p) =>
            OnlyAborts(PageRequest(caller[p].of, "sub", arg[p]))]_vars

\* A page one of whose sub-requests was aborted and another continued was
\* read to its end, and its request answered 200.
C17_Witness ==
  \E r \in Reqs :
    /\ hpc[r] = "answered"
    /\ hres[r].status = 200
    /\ \E w \in aborted : w.of = r /\ w.kind = "sub"
    /\ \E w \in wire : w.of = r /\ w.kind = "sub" /\ StartsWithHttp(w.url)


\* The request is inside fetchPage with the context that newContext gave it.
HoldsContext(r) ==
  hpc[r] \in { "setup", "blockerLoad", "blockerWait", "loading", "closing", "failing" }

ContextsIsolated ==
  /\ \A r \in Reqs : (fctx[r] # "") <=> HoldsContext(r)
  /\ open = { fctx[r] : r \in { x \in Reqs : fctx[x] # "" } }
  /\ \A r, s \in Reqs : (r # s /\ fctx[r] # "") => fctx[r] # fctx[s]
  /\ (\A r \in Reqs : ~InFetch(r)) => open = {}

\* fetchPage returns or throws in this step.
FetchEnds(r) == InFetch(r) /\ ~InFetch(r)'

\* C18: every fetchPage call creates a browser context of its own and
\* closes it before it returns or throws, on success, navigation error,
\* timeout and blocked navigation alike: while no fetch is in flight no
\* context of fetchPage is open, and no context is shared by two fetches.
C18_ContextPerFetch ==
  /\ []ContextsIsolated
  /\ [][\A r \in Reqs :
          /\ FetchEnds(r) => (fctx[r] \notin open' /\ fctx'[r] = "")
          /\ (hpc[r] = "newContext" /\ hpc'[r] = "setup") =>
               (fctx'[r] \notin open /\ fctx'[r] \in open')]_vars

\* The fetch of a request has thrown after the hook aborted its navigation:
\* the request is answered 500 and no context is left open.
C18_Witness ==
  \E r \in Reqs :
    /\ hpc[r] = "answered" /\ hres[r].status = 500
    /\ \E w \in aborted : w.of = r /\ w.kind = "navigation"
    /\ fctx[r] = ""
    /\ open = {}

\* Two fetches are in flight, each with an open context of its own.
TwoContexts ==
  /\ \A r \in Reqs : hpc[r] = "loading"
  /\ Cardinality(open) = 2


(***************************************************************************)
(* Properties of the two stores                                            *)
(***************************************************************************)
ListsBounded ==
  \A i \in 1..Len(rateLimitStore) :
    /\ Len(rateLimitStore[i].value) >= 1
    /\ Len(rateLimitStore[i].value) <= RATE_LIMIT_REQUESTS

\* C21: the timestamp list stored for an identity has at least 1 and at most
\* RATE_LIMIT_REQUESTS elements in every reachable state; a call counts as
\* active the stored timestamps strictly later than now - RATE_LIMIT_WINDOW_MS
\* only and drops the others from the list it stores; and the store changes
\* in no step but a limiter call or a clear.
C21_ListsWithinLimit ==
  /\ []ListsBounded
  /\ [][/\ \A r \in Reqs :
            Enters(r) =>
              LET active == Trimmed(rateLimitStore, rip'[r], clock)
              IN  /\ (rpc'[r] = "next") <=> (Len(active) < RATE_LIMIT_REQUESTS)
                  /\ rpc'[r] = "next" =>
                       StoredList(rateLimitStore', rip'[r]) = Append(active, clock)
        /\ rateLimitStore' # rateLimitStore =>
             ((\E r \in Reqs : Enters(r)) \/ rateLimitStore' = <<>>)]_vars

\* A request was admitted exactly one window after the admissions that had
\* filled the limit: they were dropped and the stored list holds the new
\* timestamp alone.
C21_Witness ==
  \E r \in Reqs :
    /\ rpc[r] = "next"
    /\ clock >= RATE_LIMIT_WINDOW_MS
    /\ StoredList(rateLimitStore, rip[r]) = << clock >>
    /\ Len(SelectSeq(admissions[rip[r]], LAMBDA x : x = clock - RATE_LIMIT_WINDOW_MS))
         = RATE_LIMIT_REQUESTS


\* The keys of a store, the least recently accessed first.
KeysInOrder(cache) == [i \in 1..Len(cache) |-> cache[i].key]

KeysWithout(keys, k) == SelectSeq(keys, LAMBDA x : x # k)

\* The validation p reads the cache in this step and gets the entry of its
\* hostname, or gets none; or it stores the list it resolved.
HitsCache(p) == pc[p] = "idle" /\ pc'[p] = "done" /\ stats'[p].gets = 1
MissesCache(p) == pc[p] = "idle" /\ pc'[p] = "resolving"
StoresList(p) == pc[p] = "resolving" /\ pc'[p] = "done" /\ stats'[p].sets = 1

LruOrderKept ==
  \A p \in Procs :
    LET h == HostOf(arg'[p])
        keys == KeysInOrder(dnsCache)
    IN  /\ HitsCache(p) =>
             KeysInOrder(dnsCache') = Append(KeysWithout(keys, h), h)
        /\ MissesCache(p) =>
             KeysInOrder(dnsCache') = KeysWithout(keys, h)
        /\ StoresList(p) =>
             IF h \in CacheKeys(dnsCache) \/ Len(dnsCache) < DnsCacheMax
             THEN KeysInOrder(dnsCache') = Append(KeysWithout(keys, h), h)
             ELSE /\ KeysInOrder(dnsCache') = Append(Tail(keys), h)
                  /\ \A i \in 1..(Len(dnsCache) - 1) : dnsCache'[i] = dnsCache[i + 1]

\* C22: the DNS cache never holds more hostnames than its max (1000, here
\* DnsCacheMax); the store of a new hostname into a full cache evicts exactly
\* the entry that was accessed least recently, a cache hit counting as an
\* access, whether or not the ttl of that entry has run out, and leaves every
\* other entry as it was.
C22_LruBound ==
  /\ [](Len(dnsCache) <= DnsCacheMax)
  /\ [][LruOrderKept]_vars

\* Nothing has expired; a.test was stored, then b.test, and the store of
\* c.test into the full cache has evicted a.test.
C22_Witness ==
  /\ now = 0
  /\ Len(dnsCache) = DnsCacheMax
  /\ Done("v2") /\ stats["v2"].sets = 1 /\ HostOf(arg["v2"]) = Name("a.test")
  /\ Done("v1") /\ stats["v1"].sets = 1 /\ HostOf(arg["v1"]) = Name("c.test")
  /\ Name("a.test") \notin CacheKeys(dnsCache)
  /\ KeysInOrder(dnsCache)[Len(dnsCache)] = Name("c.test")
  /\ Name("b.test") \in CacheKeys(dnsCache)


\* The entry of every tracked identity is as old as the last admitted
\* request of the identity.
AgedFromLastAdmission ==
  \A i \in 1..Len(rateLimitStore) :
    /\ rateLimitStore[i].value # <<>>
    /\ rateLimitStore[i].start
         = rateLimitStore[i].value[Len(rateLimitStore[i].value)]

\* No entry older than the window is returned.
ExpiredNotReturned ==
  \A i \in 1..Len(rateLimitStore) :
    clock - rateLimitStore[i].start > RATE_LIMIT_WINDOW_MS
      => ~CacheGet(rateLimitStore, rateLimitStore[i].key,
                   RATE_LIMIT_WINDOW_MS, clock).hit

\* The request that enters in this step belongs to an identity without an
\* entry, and the store holds RateStoreMax entries.
EntersNewIntoFull(r) ==
  /\ Enters(r)
  /\ rip'[r] \notin CacheKeys(rateLimitStore)
  /\ Len(rateLimitStore) = RateStoreMax

\* The request that enters in this step belongs to an identity whose entry
\* is older than the window.
EntersExpired(r) ==
  /\ Enters(r)
  /\ rip'[r] \in CacheKeys(rateLimitStore)
  /\ clock - EntryOf(rateLimitStore, rip'[r]).start > RATE_LIMIT_WINDOW_MS

\* C23: the limiter store never tracks more identities than its max (10000,
\* here RateStoreMax); the admission of a new identity into a full store
\* evicts exactly one existing entry and keeps the others; the age of an
\* entry counts from the last admitted request of its identity, and an entry
\* older than windowDurationMs is not returned: the request that finds it
\* starts from an empty list.
C23_StoreBound ==
  /\ [](Len(rateLimitStore) <= RateStoreMax)
  /\ []AgedFromLastAdmission
  /\ []ExpiredNotReturned
  /\ [][\A r \in Reqs :
          /\ EntersNewIntoFull(r) =>
               /\ rpc'[r] = "next"
               /\ Len(rateLimitStore') = RateStoreMax
               /\ Cardinality(CacheKeys(rateLimitStore) \ CacheKeys(rateLimitStore')) = 1
               /\ \A k \in CacheKeys(rateLimitStore) \cap CacheKeys(rateLimitStore') :
                    EntryOf(rateLimitStore', k) = EntryOf(rateLimitStore, k)
          /\ EntersExpired(r) =>
               /\ rpc'[r] = "next"
               /\ StoredList(rateLimitStore', rip'[r]) = << clock >>]_vars

\* A third identity was admitted into the full store more than a window
\* after the first two: one of them was evicted, and the entry of the other,
\* still tracked, is older than the window.
C23_Witness ==
  \E r \in Reqs :
    /\ rpc[r] = "next"
    /\ clock > RATE_LIMIT_WINDOW_MS
    /\ Len(rateLimitStore) = RateStoreMax
    /\ StoredList(rateLimitStore, rip[r]) = << clock >>
    /\ Cardinality(Identities \ CacheKeys(rateLimitStore)) = 1
    /\ \E i \in 1..Len(rateLimitStore) :
         /\ rateLimitStore[i].key # rip[r]
         /\ clock - rateLimitStore[i].start > RATE_LIMIT_WINDOW_MS


(***************************************************************************)
(* Concurrent validations of one hostname                                  *)
(***************************************************************************)
\* The resolution of the call settles in this step.
Settles(p) == pc[p] = "resolving" /\ pc'[p] = "done"

\* Both validations have stored a list for the same hostname and have not
\* returned yet.
BothStored ==
  /\ \A p \in Procs : Done(p) /\ stats[p].sets = 1
  /\ HostOf(arg["v1"]) = HostOf(arg["v2"])

\* What a resolution that settles does: with addresses, it stores exactly
\* its own list and decides from it; without, it denies and leaves the
\* cache alone; in both cases it leaves the other validation alone.
OwnListOnly ==
  \A p \in Procs :
    Settles(p) =>
      LET own == Answer(q4'[p], q6'[p])
          hostname == HostOf(arg[p])
      IN  /\ own # <<>> =>
                /\ EntryOf(dnsCache', hostname).value = own
                /\ used'[p] = own
                /\ (result'[p].kind = "allowed") <=> ~AnyForbidden(own)
                /\ (result'[p].kind = "denied") <=> AnyForbidden(own)
          /\ own = <<>> =>
                /\ dnsCache' = dnsCache
                /\ result'[p].kind = "denied"
          /\ \A q \in Procs \ { p } :
                /\ result'[q] = result[q]
                /\ used'[q] = used[q]
                /\ pc'[q] = pc[q]

\* The entries of the cache change their value only when a resolution of
\* their hostname settles with addresses.
ValueOnlyByStore ==
  \A key \in CacheKeys(dnsCache) \cap CacheKeys(dnsCache') :
    EntryOf(dnsCache', key).value # EntryOf(dnsCache, key).value =>
      \E p \in Procs :
        Settles(p) /\ HostOf(arg[p]) = key /\ Answer(q4'[p], q6'[p]) # <<>>

\* C24: two validations of the same hostname can both miss the cache; each
\* resolves on its own and decides from the list of its own resolution; each
\* resolution that returns addresses replaces the entry of the hostname by
\* exactly its own list, so that after both the entry is the list of the one
\* that stored last, and never a list that neither resolution returned.
C24_LastWriteWins ==
  /\ [](BothStored /\ HostOf(arg["v1"]) \in CacheKeys(dnsCache) =>
          EntryOf(dnsCache, HostOf(arg["v1"])).value \in { used["v1"], used["v2"] })
  /\ [][OwnListOnly /\ ValueOnlyByStore]_vars

\* Both validations missed, their resolutions returned different lists, one
\* allowed and the other denied, and the entry is the list of one of them.
C24_Witness ==
  /\ BothStored
  /\ stats["v1"].dns = 1 /\ stats["v2"].dns = 1
  /\ used["v1"] # used["v2"]
  /\ result["v1"].kind = "allowed"
  /\ result["v2"].kind = "denied"
  /\ EntryOf(dnsCache, HostOf(arg["v1"])).value = used["v1"]


(***************************************************************************)
(* Termination of validateUrl                                              *)
(***************************************************************************)
TimedOut4 == Rejected("queryA ETIMEOUT")
TimedOut6 == Rejected("queryAaaa ETIMEOUT")

Settled(q) == q.st \in { "fulfilled", "rejected" }

\* A call in flight has started each of its lookups once, and a lookup that
\* has settled stays as it settled until the call has returned.
LookupsOnce ==
  \A p \in Procs :
    /\ Settles(p) => Settled(q4[p]) /\ Settled(q6[p])
    /\ Settles(p) => q4'[p] = q4[p] /\ q6'[p] = q6[p]
    /\ (Settled(q4[p]) /\ pc'[p] # "idle") => q4'[p] = q4[p]
    /\ (Settled(q6[p]) /\ pc'[p] # "idle") => q6'[p] = q6[p]
    /\ pc[p] = "done" => pc'[p] \in { "done", "idle" }

\* A call whose lookups both timed out has returned Denied.
TimeoutsDeny ==
  \A p \in Procs :
    (Done(p) /\ q4[p] = TimedOut4 /\ q6[p] = TimedOut6) =>
      /\ result[p] = Denied("Failed to resolve hostname", HostOf(arg[p]), NoTok,
                            << TimedOut4.err, TimedOut6.err >>)
      /\ stats[p].sets = 0

\* C25: every call of validateUrl returns, given that each of its lookups
\* settles (fulfilled, rejected or timed out): the call continues only when
\* both the A and the AAAA lookup have settled, starts each lookup once and
\* never again, and returns Denied when both have timed out.
C25_EveryCallReturns ==
  /\ \A p \in Procs : (pc[p] = "resolving") ~> (pc[p] = "done")
  /\ [](\A p \in Procs : stats[p].dns <= 1 /\ pc[p] \in { "idle", "resolving", "done" })
  /\ []TimeoutsDeny
  /\ [][LookupsOnce]_vars

\* One call has returned Denied after both of its lookups timed out, while
\* the A lookup of the other call has settled and its AAAA lookup is pending.
C25_Witness ==
  /\ Done("v1") /\ q4["v1"] = TimedOut4 /\ q6["v1"] = TimedOut6
  /\ result["v1"].kind = "denied"
  /\ pc["v2"] = "resolving" /\ Settled(q4["v2"]) /\ q6["v2"] = Pending


(***************************************************************************)
(* The timeout of the page fetch                                           *)
(***************************************************************************)
\* A fetch runs with the timeout of its request, which the schema has
\* accepted, or with FETCH_TIMEOUT_MS when the request gives none.
FetchTimeoutChosen ==
  \A r \in Reqs :
    InFetch(r) =>
      /\ TimeoutAccepted(timeout[r])
      /\ timeout[r].k = "absent" => pageTimeout[r] = fetchTimeoutMs
      /\ timeout[r].k # "absent" =>
           /\ timeout[r].k = "integer"
           /\ pageTimeout[r] = timeout[r].ms
           /\ pageTimeout[r] >= MinRequestTimeout
           /\ pageTimeout[r] <= MaxRequestTimeout

\* A request whose timeout the schema does not accept is answered 400 and
\* has no validateUrl call and no fetch.
BadTimeoutRejected ==
  \A r \in Reqs :
    (hpc[r] # "none" /\ ~TimeoutAccepted(timeout[r])) =>
      /\ hpc[r] = "answered"
      /\ hres[r] = AnswerOf(400, "Validation failed")
      /\ ~HasCall(r)
      /\ pageTimeout[r] = 0
      /\ fctx[r] = ""

\* C26 as stated: every fetch of /process and /content runs with the timeout
\* of its request when one is given, an integer within [1000, 120000] (any
\* other timeout is answered 400 before validateUrl and the fetch), and with
\* the configured default otherwise; no fetch runs with a timeout above
\* 120000 ms.
C26_NoFetchAboveMax ==
  /\ FetchTimeoutChosen
  /\ BadTimeoutRejected
  /\ \A r \in Reqs : InFetch(r) => pageTimeout[r] <= MaxRequestTimeout

\* C26 amended: the same without the last part for the requests that give
\* no timeout: their fetch runs with FETCH_TIMEOUT_MS whatever its value; a
\* timeout given by the request is never above 120000 ms.
C26_RequestTimeoutBounded ==
  /\ FetchTimeoutChosen
  /\ BadTimeoutRejected

\* A fetch of /content runs with the largest timeout a request can give.
C26_Witness ==
  /\ hpc["r1"] = "loading"
  /\ endpoint["r1"] = "/content"
  /\ timeout["r1"] = Millis(MaxRequestTimeout)
  /\ pageTimeout["r1"] = MaxRequestTimeout


(***************************************************************************)
(* The module-level state that request handling changes                    *)
(***************************************************************************)
\* No request is being handled and no validateUrl call is running.
Quiescent ==
  /\ \A r \in Reqs : rpc[r] = "idle" /\ hpc[r] = "none"
  /\ \A p \in Procs : pc[p] = "idle"

\* C27 as stated: the DNS cache and the limiter store are the only
\* module-level state that request handling changes: whenever the requests
\* made so far have been answered, every other module-level variable holds
\* the value it had when the server started to serve.
C27_OnlyTheTwoStores ==
  Quiescent =>
    /\ adBlocker = "none" /\ adBlockerLoading = FALSE
    /\ browser = "none" /\ browserConnecting = FALSE
    /\ fetchTimeoutMs = FETCH_TIMEOUT_MS
    /\ consentConfig = Config({})
    /\ disallowedRanges = DISALLOWED_IP_RANGES

\* C27 amended: besides the two stores, request handling changes adBlocker
\* and adBlockerLoading of the fetcher and browser and browserConnecting of
\* index.ts: adBlocker and browser are set once, by the first load and the
\* first connection that succeed, and then kept; adBlockerLoading is false
\* again when the requests have been answered; FETCH_TIMEOUT_MS, the consent
\* configuration and the disallowed ranges keep their values.
C27_StoresAndLazyHandles ==
  /\ [](/\ fetchTimeoutMs = FETCH_TIMEOUT_MS
        /\ disallowedRanges = DISALLOWED_IP_RANGES
        /\ Quiescent => adBlockerLoading = FALSE
        /\ adBlockerLoading => \E r \in Reqs : hpc[r] = "blockerLoad"
        /\ (browser # "none") => ~browserConnecting)
  /\ [][/\ adBlocker # "none" => adBlocker' = adBlocker
        /\ browser # "none" => browser' = browser
        /\ adBlocker' # adBlocker => \E r \in Reqs : hpc[r] = "blockerLoad"
        /\ browser' # browser => browserConnecting
        /\ configVars' = configVars]_vars

\* The requests have been answered; the browser was connected and the
\* adblocker loaded on their way.
C27_Witness ==
  /\ Quiescent
  /\ adBlocker = "loaded"
  /\ browser = "connected"
  /\ dnsCache # <<>>
  /\ rateLimitStore # <<>>


(***************************************************************************)
(* The consent cookies at startup                                          *)
(***************************************************************************)
\* The file is there but cannot be read, is no JSON or violates the schema.
Unusable(file) ==
  file.read # "ENOENT" /\ ~(file.read = "ok" /\ file.json /\ file.schema)

\* loadConsentCookies() has settled.
PastLoad == phase # "main"

\* C28: with no file at CONSENT_COOKIES_PATH loadConsentCookies installs the
\* empty pattern set and returns, main() goes on to serve, and no fetch adds
\* a cookie; with a file that cannot be read for another reason, is no JSON
\* or violates the schema it throws and leaves consentConfig unset, and the
\* process exits without having listened: no request is ever handled.
C28_MissingFileFailsOpen ==
  /\ [](configFile = Missing /\ PastLoad =>
          /\ phase \in { "connecting", "listening" }
          /\ consentConfig = Config({})
          /\ \A r \in Reqs : cookies[r] = {})
  /\ [](Unusable(configFile) /\ PastLoad =>
          /\ phase = "exited"
          /\ consentConfig = Unset
          /\ \A r \in Reqs : rpc[r] = "idle" /\ hpc[r] = "none"
          /\ rateLimitStore = <<>> /\ dnsCache = <<>>)
  /\ [][/\ phase = "exited" => phase' = "exited"
        /\ PastLoad => consentConfig' = consentConfig
        /\ (phase = "main" /\ configFile = Missing) => phase' \in { "main", "connecting" }]_vars

\* Without a file, the server listens and a fetch of a site is loading its
\* page with no cookie added.
C28_Witness ==
  /\ configFile = Missing
  /\ phase = "listening"
  /\ consentConfig = Config({})
  /\ hpc["r1"] = "loading"
  /\ HostOf(target["r1"]) = Name("a.test")
  /\ cookies["r1"] = {}

\* With the patterns of a file, the fetch of a matching site has its cookies.
CookiesInjected ==
  /\ hpc["r1"] = "loading"
  /\ cookies["r1"] = { "consent" }

\* The process has exited on a file that is no JSON.
ExitedOnBadJson ==
  /\ phase = "exited"
  /\ configFile = ConfigFile("ok", FALSE, FALSE, {})


(***************************************************************************)
(* Forbidden lists in the cache                                            *)
(***************************************************************************)
\* The first forbidden address of the list, in list order.
FirstForbiddenOf(records) ==
  records[CHOOSE i \in 1..Len(records) :
            /\ isAddressForbidden(records[i])
            /\ \A j \in 1..(i - 1) : ~isAddressForbidden(records[j])]

\* C29: a resolution that returns addresses stores its list whatever the
\* classification of the addresses says, a list with a forbidden address
\* included; a later validation that finds such a list in the cache is
\* denied from it without a lookup, and its denial names the first forbidden
\* address of the list in list order.
C29_DeniedListsAreCached ==
  [][\A p \in Procs :
       LET hostname == HostOf(arg'[p])
       IN  /\ (Settles(p) /\ Answer(q4'[p], q6'[p]) # <<>>) =>
                /\ hostname \in CacheKeys(dnsCache')
                /\ EntryOf(dnsCache', hostname).value = Answer(q4'[p], q6'[p])
                /\ stats'[p].sets = 1
           /\ (HitsCache(p) /\ AnyForbidden(EntryOf(dnsCache, hostname).value)) =>
                /\ result'[p].kind = "denied"
                /\ result'[p].addr = FirstForbiddenOf(EntryOf(dnsCache, hostname).value)
                /\ result'[p].host = hostname
                /\ stats'[p].dns = 0
                /\ q4'[p] = NotStarted /\ q6'[p] = NotStarted
                /\ used'[p] = EntryOf(dnsCache, hostname).value]_vars

\* A validation was denied from the cache, without a lookup, for a list
\* whose first address is allowed and whose second is forbidden.
C29_Witness ==
  \E p \in Procs :
    /\ Done(p)
    /\ stats[p] = [dns |-> 0, gets |-> 1, sets |-> 0]
    /\ Len(used[p]) > 1
    /\ ~isAddressForbidden(used[p][1])
    /\ isAddressForbidden(used[p][2])
    /\ result[p].kind = "denied"
    /\ result[p].addr = used[p][2]


-----------------------------------------------------------------------------
\* Re-admission after the retry hint (rateLimiter, SpecRetry).

\* The hints of the denials of the identity since its last admission.
OpenHint(ip) == IF hinted[ip].met THEN NoHint ELSE hinted[ip]

\* The request enters for an identity that was denied and has not been
\* admitted since, at or after the time one of these denials hinted at.
EntersAfterHint(r) ==
  /\ Enters(r)
  /\ OpenHint(rip'[r]).release # -1
  /\ clock >= OpenHint(rip'[r]).release

\* A denied call leaves the list of its identity as it was stored.
DenialAddsNothing(r) ==
  Enters(r) /\ rpc'[r] = "denied" =>
    StoredList(rateLimitStore', rip'[r]) = StoredList(rateLimitStore, rip'[r])

\* C30: a call of an identity that was denied, made at or after the time
\* the retry hint of any of its denials since its last admission pointed to,
\* is admitted; the denied calls in between add no timestamp to its list.
C30_AdmittedAfterHint ==
  [][\A r \in Reqs :
       /\ EntersAfterHint(r) => rpc'[r] = "next"
       /\ DenialAddsNothing(r)]_vars

\* An identity is admitted after the window has passed, at or after the
\* time hinted at, having been denied twice or more in between.
C30_Witness ==
  \E r \in Reqs :
    /\ rpc[r] = "next"
    /\ hinted[rip[r]].met
    /\ hinted[rip[r]].denials >= 2
    /\ clock >= hinted[rip[r]].release
    /\ clock > RATE_LIMIT_WINDOW_MS


-----------------------------------------------------------------------------
\* Authentication before rate limiting (createApp of part_002, apiKeyAuth,
\* SpecAuth).

\* The request carries the configured key as its bearer token.
ValidToken(r) == authz[r] = Bearer(apiKey)

\* The request enters apiKeyAuth in this step.
EntersAuth(r) == apc[r] = "idle" /\ apc'[r] # "idle"

\* With a key configured, a request without the valid token is rejected in
\* the step in which it enters, and the step leaves the limiter alone.
RejectedAtOnce(r) ==
  EntersAuth(r) /\ apiKey # NoKey /\ ~ValidToken(r)' =>
    /\ apc'[r] = "rejected"
    /\ response'[r].status \in { 400, 401 }
    /\ response'[r].status = 400 <=> authz'[r].k = "other"
    /\ rateLimitStore' = rateLimitStore
    /\ rpc' = rpc

\* A rejected request stays out of the limiter until its response is sent.
RejectedStaysOut(r) ==
  apc[r] = "rejected" =>
    /\ rpc[r] = "idle" /\ rpc'[r] = "idle"
    /\ apc'[r] \in { "rejected", "idle" }

\* The limiter store is written only by a request that passed apiKeyAuth.
StoreWrittenByAuthorized ==
  rateLimitStore' # rateLimitStore =>
    \E r \in Reqs : Enters(r) /\ apc[r] = "next" /\ (apiKey = NoKey \/ ValidToken(r))

\* Without a key every request passes, whatever its header.
NoKeyPasses(r) == EntersAuth(r) /\ apiKey = NoKey => apc'[r] = "next"

\* C31 as stated: with a key configured, every request without a valid
\* bearer token is answered with 401.
C31_RejectedWith401 ==
  \A r \in Reqs : apc[r] = "rejected" => response[r].status = 401

\* C31: with a key configured, a request without the valid bearer token is
\* rejected before the rate limiter runs, with 401 when the header is absent
\* or its token is wrong and with 400 when the header is no bearer
\* credential, and the limiter store stays as it was; without a key every
\* request passes apiKeyAuth and goes on to the limiter.
C31_RejectedBeforeLimiter ==
  [][/\ \A r \in Reqs : RejectedAtOnce(r) /\ RejectedStaysOut(r) /\ NoKeyPasses(r)
     /\ StoreWrittenByAuthorized]_vars

\* A request with a wrong token was rejected with 401 while the store holds
\* the admissions of an authorized request, one short of the limit.
C31_Witness ==
  /\ apiKey # NoKey
  /\ apc["r2"] = "rejected"
  /\ authz["r2"] = Bearer("guess")
  /\ response["r2"].status = 401
  /\ apc["r1"] = "inner"
  /\ ValidToken("r1")
  /\ \E ip \in Identities : Len(StoredList(rateLimitStore, ip)) = RATE_LIMIT_REQUESTS - 1

\* Without a key a request without a header has reached the limiter.
KeylessReachesLimiter ==
  apiKey = NoKey /\ \E r \in Reqs : apc[r] = "inner" /\ authz[r] = NoHeader /\ rpc[r] = "next"


-----------------------------------------------------------------------------
\* connectBrowser (SpecConnect).

\* The attempts made so far, all but the last, failed.
EarlierFailed == \A i \in 1..(Len(conn.tried) - 1) : conn.tried[i] \in CdpErrors

\* The delays passed so far: one between every two consecutive attempts.
DelaysBetween(attempts) == RETRY_DELAY_MS * (attempts - 1)

\* Where connectBrowser stands, by its position.
ConnectShape ==
  /\ Len(conn.tried) <= MAX_RETRIES
  /\ EarlierFailed
  /\ conn.pc = "attempt" =>
       /\ conn.attempt = Len(conn.tried) + 1
       /\ conn.attempt <= MAX_RETRIES
       /\ conn.waited = DelaysBetween(conn.attempt)
  /\ conn.pc = "delay" =>
       /\ Len(conn.tried) < MAX_RETRIES
       /\ conn.tried[Len(conn.tried)] \in CdpErrors
       /\ conn.waited = DelaysBetween(Len(conn.tried))
  /\ conn.pc = "returned" =>
       /\ conn.tried[Len(conn.tried)] = "connected"
       /\ conn.waited = DelaysBetween(Len(conn.tried))
  /\ conn.pc = "thrown" =>
       /\ Len(conn.tried) = MAX_RETRIES
       /\ conn.tried[MAX_RETRIES] \in CdpErrors
       /\ conn.cause = conn.tried[MAX_RETRIES]
       /\ conn.waited = DelaysBetween(MAX_RETRIES)

\* A call that is under way ends, with a browser or with its error.
ConnectEnds == (conn.pc = "attempt") ~> (conn.pc \in { "returned", "thrown" })

\* C32: connectBrowser terminates after at most MAX_RETRIES = 3 attempts; it
\* returns at the first attempt that succeeds, has waited RETRY_DELAY_MS =
\* 2000 ms between every two consecutive attempts and not after the last,
\* and after three failures throws an error with the message of the last.
C32_ConnectTerminates == []ConnectShape /\ ConnectEnds

\* Three attempts failed with different messages, and the error thrown has
\* the last of them, after two delays.
C32_Witness ==
  /\ conn.pc = "thrown"
  /\ conn.tried[1] # conn.tried[3]
  /\ conn.tried[2] # conn.tried[3]
  /\ conn.cause = conn.tried[3]
  /\ conn.waited = 2 * RETRY_DELAY_MS

\* The second attempt succeeded after one delay.
ConnectedOnRetry ==
  conn.pc = "returned" /\ Len(conn.tried) = 2 /\ conn.waited = RETRY_DELAY_MS


-----------------------------------------------------------------------------
\* getBrowser and the lazy connection (index.ts, SpecLazy).

\* The handler of the request calls getBrowser() in this step.
CallsGetBrowser(r) ==
  /\ hpc[r] = "validating" /\ hpc'[r] # "validating"
  /\ result[RouteCallOf(r)].kind = "allowed"

\* getBrowser returns what browser holds at the call: null is answered with
\* 503 in the same step, a browser goes to fetchPage; browser itself is not
\* changed by the call.
ReturnsCurrent(r) ==
  CallsGetBrowser(r) =>
    /\ browser' = browser
    /\ browser = "none" => hpc'[r] = "answered" /\ hres'[r].status = 503
    /\ browser # "none" => hpc'[r] = "newContext"

\* The call starts a connection exactly when there is no browser and no
\* connection in flight, and then exactly one.
StartsOneWhenNeeded(r) ==
  CallsGetBrowser(r) =>
    IF browser = "none" /\ ~browserConnecting
    THEN link'.lazy = link.lazy + 1 /\ browserConnecting'
    ELSE link'.lazy = link.lazy /\ browserConnecting' = browserConnecting

\* The flag is set exactly while a lazy connection is in flight, and there
\* is never more than one.
OneInFlight ==
  /\ link.lazy \in { 0, 1 }
  /\ browserConnecting <=> link.lazy = 1

\* C33: getBrowser returns the current value of browser without waiting
\* (null is answered with 503) and starts one background connection when
\* there is no browser and none is in flight; at most one lazy connection is
\* in flight at any time, and browserConnecting is cleared when it settles.
C33_OneLazyConnection ==
  /\ []OneInFlight
  /\ [][/\ \A r \in Reqs : ReturnsCurrent(r) /\ StartsOneWhenNeeded(r)
        /\ link'.lazy < link.lazy => ~browserConnecting']_vars

\* A second lazy connection is in flight after the first one failed, and a
\* request was answered with 503 meanwhile.
C33_Witness ==
  /\ link.started = 2
  /\ link.lazy = 1
  /\ browser = "none"
  /\ \E r \in Reqs : hpc[r] = "answered" /\ hres[r].status = 503


-----------------------------------------------------------------------------
\* The single load of the adblocker (getAdBlocker, SpecRoutes).

\* The fetches that await PlaywrightBlocker.fromPrebuiltFull.
Loaders == { r \in Reqs : hpc[r] = "blockerLoad" }

\* At most one load is in flight, and adBlockerLoading is set exactly then.
OneLoad ==
  /\ Cardinality(Loaders) <= 1
  /\ adBlockerLoading <=> Loaders # {}

\* A fetch in getAdBlocker starts a load only when there is no instance and
\* no load in flight; with a load in flight it waits.
LoadStartedWhenNeeded(r) ==
  /\ hpc[r] # "blockerLoad" /\ hpc'[r] = "blockerLoad" =>
       adBlocker = "none" /\ ~adBlockerLoading
  /\ hpc[r] # "blockerWait" /\ hpc'[r] = "blockerWait" =>
       adBlocker = "none" /\ adBlockerLoading

\* The load ends: its fetch goes on to the navigation whether it succeeded
\* or not, a failure leaves no instance, and the flag is reset.
LoadEnds(r) ==
  hpc[r] = "blockerLoad" /\ hpc'[r] # "blockerLoad" =>
    /\ hpc'[r] = "loading"
    /\ ~adBlockerLoading'
    /\ adBlocker' \in { "none", "loaded" }

\* The wait ends only when no load is in flight, and the waiting fetch goes
\* on to the navigation with the instance there is, if any.
WaitEnds(r) ==
  hpc[r] = "blockerWait" /\ hpc'[r] # "blockerWait" =>
    /\ ~adBlockerLoading
    /\ hpc'[r] = "loading"
    /\ adBlocker' = adBlocker

\* C34: at most one load of the adblocker is in flight; a fetch that finds
\* one in flight waits until none is and goes on with the instance there is
\* or without one; a failed load leaves no instance and resets the flag, so
\* that the next fetch loads again; an instance, once loaded, is kept, and a
\* failed load does not fail the fetch.
C34_SingleLoad ==
  /\ []OneLoad
  /\ [][/\ \A r \in Reqs : LoadStartedWhenNeeded(r) /\ LoadEnds(r) /\ WaitEnds(r)
        /\ adBlocker = "loaded" => adBlocker' = "loaded"]_vars

\* A fetch navigates without an adblocker after a load that failed, and the
\* next fetch has started a new load.
C34_Witness ==
  /\ adBlocker = "none"
  /\ hpc["r1"] = "loading"
  /\ hpc["r2"] = "blockerLoad"

\* A fetch that waited for the load of another navigates with the adblocker.
WaitedForLoad ==
  \E r \in Reqs : hpc[r] = "blockerWait" /\ adBlocker = "loaded"


-----------------------------------------------------------------------------
\* The hook validates the navigation again (fetchPage, SpecRoutes).

\* The navigation of the fetch of the request.
Navigation(r) == PageRequest(r, "navigation", target[r])

\* The hook has aborted the navigation of the fetch.
NavigationAborted(r) == Navigation(r) \in aborted

\* The navigation goes out only from the hook, after its own validateUrl
\* call has allowed it.
NavigationValidatedAgain(r) ==
  Navigation(r) \notin wire /\ Navigation(r) \in wire' =>
    \E p \in Procs :
      /\ caller[p] = Caller(r, "navigation")
      /\ pc[p] = "done"
      /\ arg[p] = target[r]
      /\ result[p].kind = "allowed"

\* A fetch whose navigation was aborted has not sent it, does not read the
\* page, and ends with its context closed and the answer 500.
AbortedFetchFails(r) ==
  NavigationAborted(r) =>
    /\ ~NavigationSent(r)
    /\ hpc[r] \in { "loading", "failing", "answered" }
    /\ hpc[r] = "answered" => hres[r].status = 500 /\ fctx[r] = "" 
    /\ fctx[r] = "" => hpc[r] = "answered"

\* C35: the navigation request passes the hook, which validates it a second
\* time; when that validation denies a URL the initial gate had allowed, the
\* navigation is aborted and never sent, fetchPage throws, the context is
\* closed and the request is answered with 500.
C35_NavigationRevalidated ==
  /\ [](\A r \in Reqs : AbortedFetchFails(r))
  /\ [][\A r \in Reqs : NavigationValidatedAgain(r)]_vars

\* The request was answered with 500 after its navigation was aborted: its
\* context is closed and nothing of it went out.
C35_Witness ==
  \E r \in Reqs :
    /\ NavigationAborted(r)
    /\ hpc[r] = "answered"
    /\ hres[r].status = 500
    /\ fctx[r] \notin open
    /\ \A w \in wire : w.of # r


-----------------------------------------------------------------------------
\* The browser variable, once set (index.ts, SpecStartup).

\* One browser at most is ever assigned, and none is being connected while
\* there is one.
AssignedOnce ==
  /\ link.made <= 1
  /\ link.made = 1 <=> browser # "none"
  /\ browser # "none" => link.lazy = 0 /\ ~browserConnecting

\* With a browser in the variable, a step keeps it, starts no connection,
\* answers /ready with 200, and gives the browser to the fetch of a request
\* that asks for it.
KeptOnceSet ==
  browser # "none" =>
    /\ browser' = browser
    /\ link'.made = link.made
    /\ link'.started = link.started /\ link'.lazy = 0 /\ ~browserConnecting'
    /\ link'.ready # link.ready => link'.ready = 200
    /\ \A r \in Reqs : CallsGetBrowser(r) => hpc'[r] = "newContext"

\* C36: the browser variable, once it holds a connected instance, keeps it:
\* it is not reset and not replaced, getBrowser returns it, /ready answers
\* ready and no further connection is started, whatever becomes of the
\* browser itself.
C36_BrowserKept == []AssignedOnce /\ [][KeptOnceSet]_vars

\* The browser was connected lazily after the connection at startup had
\* failed; /ready has answered ready, and a request that got the browser was
\* answered with 500.
C36_Witness ==
  /\ browser = "connected"
  /\ link.started >= 1
  /\ link.ready = 200
  /\ hpc["r1"] = "answered"
  /\ hres["r1"].status = 500


-----------------------------------------------------------------------------
\* The clear and stats functions (ssrf.ts, part_003, SpecMaintenance).

\* The step is a call of the function op.
Calls(op) == reported' # reported /\ reported'.op = op

\* Everything but the history of these calls.
ProgramState == << guardVars, limiterVars, classifierVars, routeVars, processKept >>

\* What the limiter decides for RATE_LIMIT_REQUESTS calls of the identity
\* in a row at time t: all of them are admitted.
RECURSIVE AdmitsInRow(_, _, _, _)
AdmitsInRow(store, ip, t, n) ==
  IF n = 0 THEN TRUE
  ELSE LET out == rateLimiter(store, ip, t)
       IN  out.admitted /\ AdmitsInRow(out.store, ip, t, n - 1)

\* clearDnsCache leaves an empty cache, reported as size 0, and the limiter
\* as it was.
ClearDnsCacheEffect ==
  Calls("clearDnsCache") =>
    /\ dnsCache' = <<>>
    /\ getDnsCacheStats(dnsCache').size = 0
    /\ limiterVars' = limiterVars

\* clearRateLimitStore leaves an empty store, in which every identity has
\* its whole budget, and the DNS cache as it was.
ClearRateLimitStoreEffect ==
  Calls("clearRateLimitStore") =>
    /\ rateLimitStore' = <<>>
    /\ getRateLimitStats(rateLimitStore').size = 0
    /\ \A ip \in Identities : AdmitsInRow(rateLimitStore', ip, clock', RATE_LIMIT_REQUESTS)
    /\ dnsCache' = dnsCache

\* The stats functions return the number of entries with 1000 and 10000 as
\* the maxima, and change nothing.
StatsEffect ==
  /\ Calls("getDnsCacheStats") =>
       /\ reported'.size = Len(dnsCache) /\ reported'.max = 1000
       /\ ProgramState' = ProgramState
  /\ Calls("getRateLimitStats") =>
       /\ reported'.size = Len(rateLimitStore) /\ reported'.max = 10000
       /\ ProgramState' = ProgramState

\* A validation of a name that starts on an empty cache asks the resolver.
EmptyCacheResolves ==
  \A p \in Procs :
    pc[p] = "idle" /\ pc'[p] # "idle" /\ dnsCache = <<>> /\ ~IsIpLiteral(HostOf(arg'[p]))
      => pc'[p] = "resolving" /\ stats'[p].dns = 1

\* C37: clearDnsCache empties the DNS cache (size 0; the next validation of
\* a name resolves afresh) and leaves the limiter store alone;
\* clearRateLimitStore empties the limiter store (every identity has its
\* whole budget again) and leaves the DNS cache alone; the stats functions
\* report the entry counts with the maxima 1000 and 10000 and change nothing.
C37_ClearAndStats ==
  [][/\ ClearDnsCacheEffect
     /\ ClearRateLimitStoreEffect
     /\ StatsEffect
     /\ EmptyCacheResolves]_vars

\* The DNS cache was cleared while it held entries and the limiter store
\* holds an identity at its limit; the name is being resolved again.
C37_Witness ==
  /\ reported.op = "clearDnsCache"
  /\ dnsCache = <<>>
  /\ pc["v1"] = "resolving"
  /\ \E ip \in Identities : Len(StoredList(rateLimitStore, ip)) = RATE_LIMIT_REQUESTS

\* The limiter store was cleared with the DNS cache full.
StoreClearedCacheFull ==
  /\ reported.op = "clearRateLimitStore"
  /\ rateLimitStore = <<>>
  /\ Len(dnsCache) = DnsCacheMax

\* The stats of a cache with entries were read.
StatsOfFilledCache ==
  reported.op = "getDnsCacheStats" /\ reported.size = DnsCacheMax /\ reported.max = 1000

=============================================================================
